---------------------------- MODULE Spec2Model ----------------------------
(***************************************************************************)
(* Retrieval and ranking engine of the medical-document search service:    *)
(* QdrantMedicSearchV2 (qdrant_search.py), the keyword scorer, excerpt     *)
(* extraction and date-sort key (app.py) and the local query               *)
(* reformulation (ai_summary.py).                                          *)
(*                                                                         *)
(* Text is a sequence of one-character strings.  Scores are fixed-point    *)
(* integers in units of 1/Scale, so that every product of the weight table *)
(* is exact.                                                               *)
(***************************************************************************)
EXTENDS Integers, Sequences, FiniteSets, TLC

VARIABLES
    \* QdrantMedicSearchV2 and its collaborators
    available,        \* self.available
    fault,            \* the collaborators that raise when called
    index,            \* the vector index's ranking of the corpus for the query
    corpusPad,        \* number of points stored before the named ones
    corpus,           \* payloads of the named points, in storage order
    query,            \* the caller's query
    limit,            \* the caller's limit
    filters,          \* the caller's filters (search_with_filters)
    score_threshold,  \* the caller's final threshold
    op,               \* the operation that produced out
    out,              \* the list the operation returned
    embCache,         \* inputs held by _get_embedding_cached's cache, oldest use first
    encoded,          \* inputs the last operation handed to embedding_model.encode
    \* keyword scorer (app.py)
    medicine,         \* the document being scored (a dict)
    search_query,     \* the query of the keyword path
    kwScore,          \* value returned by the last calculate_relevance_score
    kwCalls,          \* number of calls made on the document
    raised,           \* the exception the last call raised, "none" if it returned
    locations,        \* list returned by find_search_term_locations
    located,          \* whether find_search_term_locations was called
    \* excerpt extraction (app.py)
    text,
    term,
    excerpt,
    \* date-sort key (app.py)
    date_str,
    dateKey,
    dateMemo,
    callers,          \* the threads inside a cached function, each with its position
    \* query reformulation (ai_summary.py)
    user_query,
    MISTRAL_API_KEY,
    llm,
    reformulated

searchVars == <<available, fault, index, corpusPad, corpus, query, limit, filters, score_threshold, op, out,
                embCache, encoded>>
keywordVars == <<medicine, search_query, kwScore, kwCalls, raised, locations, located>>
excerptVars == <<text, term, excerpt>>
dateVars == <<date_str, dateKey, dateMemo, callers>>
reformVars == <<user_query, MISTRAL_API_KEY, llm, reformulated>>
vars == <<searchVars, keywordVars, excerptVars, dateVars, reformVars>>

-----------------------------------------------------------------------------
(* Python str operations, on sequences of one-character strings.           *)

\* The characters of the model, in code-point order.  An accented letter is
\* one character, written as its base letter followed by a tilde.
Alphabet ==
    << "\n", " ", "!", "\"", "'", "+", ",", "-", ".", "/",
       "0", "1", "2", "3", "4", "5", "6", "7", "8", "9", ":", ";", "?",
       "A", "B", "C", "D", "E", "F", "G", "H", "I", "J", "K", "L", "M",
       "N", "O", "P", "Q", "R", "S", "T", "U", "V", "W", "X", "Y", "Z",
       "a", "b", "c", "d", "e", "f", "g", "h", "i", "j", "k", "l", "m",
       "n", "o", "p", "q", "r", "s", "t", "u", "v", "w", "x", "y", "z",
       "a~", "c~", "e~", "o~", "u~" >>

Ord(c) == CHOOSE i \in 1..Len(Alphabet) : Alphabet[i] = c

UpperFirst == Ord("A")
LowerFirst == Ord("a")

\* str.lower() on one character
LowerChar(c) ==
    LET o == Ord(c)
    IN  IF o >= UpperFirst /\ o < UpperFirst + 26
        THEN Alphabet[o - UpperFirst + LowerFirst]
        ELSE c

\* str.lower()
Lower(s) == [i \in 1..Len(s) |-> LowerChar(s[i])]

Min(a, b) == IF a <= b THEN a ELSE b
Max(a, b) == IF a >= b THEN a ELSE b

\* s[a:b] with 0 <= a, 0-based and end-exclusive as in Python
Slice(s, a, b) ==
    LET e == Min(b, Len(s))
    IN  IF a >= e THEN << >> ELSE [i \in 1..(e - a) |-> s[a + i]]

\* whether t occurs in s at 0-based offset i
MatchAt(s, t, i) ==
    /\ i >= 0
    /\ i + Len(t) <= Len(s)
    /\ \A k \in 1..Len(t) : s[i + k] = t[k]

\* s.find(t, start): lowest 0-based offset >= start, or -1
Find(s, t, start) ==
    LET hits == {i \in start..(Len(s) - Len(t)) : MatchAt(s, t, i)}
    IN  IF hits = {} THEN -1 ELSE CHOOSE i \in hits : \A j \in hits : i <= j

\* s.rfind(t, 0, end): highest 0-based offset with the match inside s[0:end], or -1
RFind(s, t, end) ==
    LET hits == {i \in 0..(Min(end, Len(s)) - Len(t)) : MatchAt(s, t, i)}
    IN  IF hits = {} THEN -1 ELSE CHOOSE i \in hits : \A j \in hits : i >= j

\* t in s
Contains(s, t) == Find(s, t, 0) # -1

\* s.startswith(t)
StartsWith(s, t) == MatchAt(s, t, 0)

\* s.count(t) for a non-empty t: non-overlapping occurrences, left to right
RECURSIVE CountFrom(_, _, _)
CountFrom(s, t, i) ==
    IF i + Len(t) > Len(s) THEN 0
    ELSE IF MatchAt(s, t, i) THEN 1 + CountFrom(s, t, i + Len(t))
    ELSE CountFrom(s, t, i + 1)

Count(s, t) == CountFrom(s, t, 0)

\* s.strip(chars)
RECURSIVE LStripChars(_, _)
LStripChars(s, chars) ==
    IF s # << >> /\ s[1] \in chars THEN LStripChars(Tail(s), chars) ELSE s

RECURSIVE RStripChars(_, _)
RStripChars(s, chars) ==
    IF s # << >> /\ s[Len(s)] \in chars
    THEN RStripChars(SubSeq(s, 1, Len(s) - 1), chars)
    ELSE s

StripChars(s, chars) == RStripChars(LStripChars(s, chars), chars)

Whitespace == {" ", "\n"}

\* s.strip()
Strip(s) == StripChars(s, Whitespace)

\* s.split(): the maximal runs of non-whitespace characters
RECURSIVE SplitFrom(_, _, _)
SplitFrom(s, i, word) ==
    IF i > Len(s) THEN (IF word = << >> THEN << >> ELSE << word >>)
    ELSE IF s[i] \in Whitespace
         THEN (IF word = << >> THEN << >> ELSE << word >>) \o SplitFrom(s, i + 1, << >>)
         ELSE SplitFrom(s, i + 1, Append(word, s[i]))

Split(s) == SplitFrom(s, 1, << >>)

\* s.split(sep) for a one-character sep: empty parts are kept
RECURSIVE SplitOnFrom(_, _, _, _)
SplitOnFrom(s, sep, i, part) ==
    IF i > Len(s) THEN << part >>
    ELSE IF s[i] = sep
         THEN << part >> \o SplitOnFrom(s, sep, i + 1, << >>)
         ELSE SplitOnFrom(s, sep, i + 1, Append(part, s[i]))

SplitOn(s, sep) == SplitOnFrom(s, sep, 1, << >>)

\* a < b for str: by code point, a proper prefix first
RECURSIVE StrLess(_, _)
StrLess(a, b) ==
    IF b = << >> THEN FALSE
    ELSE IF a = << >> THEN TRUE
    ELSE IF a[1] = b[1] THEN StrLess(Tail(a), Tail(b))
    ELSE Ord(a[1]) < Ord(b[1])

\* sep.join(parts)
RECURSIVE Join(_, _)
Join(parts, sep) ==
    IF parts = << >> THEN << >>
    ELSE IF Len(parts) = 1 THEN parts[1]
    ELSE parts[1] \o sep \o Join(Tail(parts), sep)

\* lst[:n]
Take(lst, n) == SubSeq(lst, 1, Min(n, Len(lst)))

Range(f) == {f[i] : i \in DOMAIN f}


-----------------------------------------------------------------------------
(* QdrantMedicSearchV2: scores and boosters (qdrant_search.py).            *)

\* 1.0 in score units
Scale == 1000 * 1000

\* x * (num / den) for a decimal factor num/den
Times(x, num, den) == (x * num) \div den

\* _normalize_score: min(max(score, 0), 1.0)
NormalizeUnclamped(score) == score

_normalize_score(score) == Min(Max(score, 0), Scale)

\* _exact_match_boost(query, nom, base_score)
ExactBoostUncapped(q, nom, base_score) ==
    LET query_lower == Strip(Lower(q))
        nom_lower == Strip(Lower(nom))
    IN  IF nom_lower = query_lower THEN Times(base_score, 15, 10)
        ELSE IF StartsWith(nom_lower, query_lower) THEN Times(base_score, 13, 10)
        ELSE IF Contains(nom_lower, query_lower) THEN Times(base_score, 115, 100)
        ELSE base_score

_exact_match_boost(q, nom, base_score) ==
    LET query_lower == Strip(Lower(q))
        nom_lower == Strip(Lower(nom))
    IN  IF nom_lower = query_lower THEN Min(Times(base_score, 15, 10), Scale)
        ELSE IF StartsWith(nom_lower, query_lower)
             THEN Min(Times(base_score, 13, 10), Scale)
        ELSE IF Contains(nom_lower, query_lower)
             THEN Min(Times(base_score, 115, 100), Scale)
        ELSE base_score

\* query_words: the set of lowercased query words longer than 2 characters
QueryWords(q) == {w \in Range(Split(Lower(q))) : Len(w) > 2}

\* full_text = f"{nom_lower} {indications_lower}"
FullText(nom, indications) == Lower(nom) \o << " " >> \o Lower(indications)

\* keyword_matches
KeywordMatches(q, nom, indications) ==
    Cardinality({w \in QueryWords(q) : Contains(FullText(nom, indications), w)})

\* _keyword_relevance_boost(query, nom, indications, score)
KeywordBoostSwapped(q, nom, indications, score) ==
    LET total_words == Cardinality(QueryWords(q))
        keyword_matches == KeywordMatches(q, nom, indications)
    IN  IF total_words = 0 THEN score
        ELSE IF 10 * keyword_matches >= 7 * total_words
             THEN Min(Times(score, 13, 10), Scale)
        ELSE IF 10 * keyword_matches >= 4 * total_words
             THEN Min(Times(score, 11, 10), Scale)
        ELSE IF keyword_matches > 0 THEN Times(score, 85, 100)
        ELSE score

_keyword_relevance_boost(q, nom, indications, score) ==
    LET total_words == Cardinality(QueryWords(q))
        keyword_matches == KeywordMatches(q, nom, indications)
    IN  IF total_words = 0 THEN score
        ELSE IF 10 * keyword_matches >= 7 * total_words
             THEN Min(Times(score, 13, 10), Scale)
        ELSE IF 10 * keyword_matches >= 4 * total_words
             THEN Min(Times(score, 11, 10), Scale)
        ELSE IF keyword_matches > 0 THEN score
        ELSE Times(score, 85, 100)

\* _calculate_relevance_score(query, result)
RelevanceWithoutPenalty(q, result) ==
    LET keyword_boost ==
            _keyword_relevance_boost(q, result.nom, result.indications, Scale) - Scale
        exact_boost == _exact_match_boost(q, result.nom, Scale) - Scale
    IN  Max(Min(Times(result.score, 45, 100) + Times(keyword_boost, 3, 10)
                    + Times(exact_boost, 2, 10), Scale), 0)

_calculate_relevance_score(q, result) ==
    LET base_score == result.score
        nom == result.nom
        indications == result.indications
        keyword_boost == _keyword_relevance_boost(q, nom, indications, Scale) - Scale
        keyword_component == Times(keyword_boost, 3, 10)
        exact_boost == _exact_match_boost(q, nom, Scale) - Scale
        exact_component == Times(exact_boost, 2, 10)
        vector_component == Times(base_score, 45, 100)
        penalty == IF 10 * base_score < 2 * Scale THEN Times(Scale, 8, 100) ELSE 0
        penalty_component == Times(penalty, 5, 100)
        final_score ==
            Min(vector_component + keyword_component + exact_component
                    + penalty_component, Scale)
    IN  Max(final_score, 0)

\* list.sort(key=score, reverse=True) and sorted(..., reverse=True): stable
RECURSIVE InsertBeforeEqual(_, _)
InsertBeforeEqual(sorted, x) ==
    IF sorted = << >> THEN << x >>
    ELSE IF sorted[1].score > x.score
         THEN << sorted[1] >> \o InsertBeforeEqual(Tail(sorted), x)
         ELSE << x >> \o sorted

RECURSIVE InsertByScore(_, _)
InsertByScore(sorted, x) ==
    IF sorted = << >> THEN << x >>
    ELSE IF sorted[1].score >= x.score
         THEN << sorted[1] >> \o InsertByScore(Tail(sorted), x)
         ELSE << x >> \o sorted

RECURSIVE SortByScoreDesc(_)
SortByScoreDesc(lst) ==
    IF lst = << >> THEN << >>
    ELSE InsertByScore(SortByScoreDesc(SubSeq(lst, 1, Len(lst) - 1)), lst[Len(lst)])

\* _rerank_results(query, results)
_rerank_results(q, results) ==
    LET reranked ==
            [i \in 1..Len(results) |->
                [k \in DOMAIN results[i] \cup {"original_score"} |->
                    IF k = "score" THEN _calculate_relevance_score(q, results[i])
                    ELSE IF k = "original_score" THEN results[i].score
                    ELSE results[i][k]]]
    IN  SortByScoreDesc(reranked)


-----------------------------------------------------------------------------
(* The collection: corpusPad points whose name matches no query, then the  *)
(* named points.  Point ids follow the storage order, which is the order   *)
(* scroll() returns them in.                                               *)

\* the named points of the search paths: payload nom and indications
SearchDocs ==
    << [nom |-> << "D", "o", "l", "i", "p", "r", "a", "n", "e" >>, indications |-> << "f", "i", "e", "v", "r", "e", " ", "f", "o", "r", "t", "e" >>],
       [nom |-> << "D", "o", "l", "i", "p", "r", "a", "n", "e", " ", "5", "0", "0" >>, indications |-> << >>],
       [nom |-> << "A", "s", "p", "i", "r", "i", "n", "e" >>, indications |-> << "m", "a", "l", " ", "d", "e", " ", "t", "e", "t", "e" >>] >>

\* payload of a padding point
PadPayload == [nom |-> << "Z", "y", "x" >>, indications |-> << >>]

\* a payload field stored as null
None == << "<None>" >>

\* a point stored without payload: result.payload is None
NonePayload == [NoneType |-> TRUE]

\* result.payload or {}
PayloadOrEmpty(payload) == IF "NoneType" \in DOMAIN payload THEN << >> ELSE payload

\* payload.get(key, default): the stored value, null included, or the default
PayloadGetOr(payload, key, default) ==
    IF key \in DOMAIN payload THEN payload[key] ELSE default

\* payload.get(key, "")
PayloadGet(payload, key) == PayloadGetOr(payload, key, << >>)

\* the stored points, in storage order
Points(pad, named) ==
    [i \in 1..(pad + Len(named)) |->
        [id |-> i, payload |-> IF i <= pad THEN PadPayload ELSE named[i - pad]]]

\* qdrant.scroll(limit=n, with_payload=True)[0]: the first n stored points
Scroll(pad, named, n) == Take(Points(pad, named), n)

\* qdrant.search(query_vector, limit=n): the n nearest points, best first, each
\* with its raw similarity.  idx ranks the named points; a padding point is
\* never among the nearest.
Search(pad, named, idx, n) ==
    [i \in 1..Min(n, Len(idx)) |->
        [id |-> pad + idx[i].doc, score |-> idx[i].raw, payload |-> named[idx[i].doc]]]


-----------------------------------------------------------------------------
(* QdrantMedicSearchV2: the search operations (qdrant_search.py).          *)

PreFilter == Times(Scale, 15, 100)

\* recherche_semantique, step 3: one result_dict per hit, kept when its
\* normalized score is at least 0.15
FormatHitsUnfiltered(search_results) ==
    [i \in 1..Len(search_results) |->
        [id |-> search_results[i].id,
         score |-> _normalize_score(search_results[i].score),
         nom |-> PayloadGetOr(PayloadOrEmpty(search_results[i].payload), "nom", << "N", "/", "A" >>),
         indications |->
             Take(PayloadGet(PayloadOrEmpty(search_results[i].payload), "indications"), 250),
         qdrant_id |-> search_results[i].id]]

FormatHits(search_results) ==
    LET result_dict(r) ==
            [id |-> r.id,
             score |-> _normalize_score(r.score),
             nom |-> PayloadGetOr(PayloadOrEmpty(r.payload), "nom", << "N", "/", "A" >>),
             indications |-> Take(PayloadGet(PayloadOrEmpty(r.payload), "indications"), 250),
             qdrant_id |-> r.id]
        all == [i \in 1..Len(search_results) |-> result_dict(search_results[i])]
    IN  SelectSeq(all, LAMBDA d : d.score >= PreFilter)

\* recherche_semantique, step 3: slicing a null field raises TypeError
FormatRaises(search_results) ==
    \E i \in 1..Len(search_results) :
        PayloadGet(PayloadOrEmpty(search_results[i].payload), "indications") = None

\* _rerank_results: nom.lower() on a null name raises AttributeError
RerankRaises(results) == \E i \in 1..Len(results) : results[i].nom = None

\* the collaborators that may raise: the embedding model (encode) and the
\* vector index (search, scroll)
Faults == {"embedding", "index"}

EmbeddingCacheSize == 1000

\* position test on the cache of _get_embedding_cached
InCache(cache, key) == \E i \in 1..Len(cache) : cache[i] = key

EmbeddingCacheInsertUnbounded(cache, key) ==
    Append(SelectSeq(cache, LAMBDA k : k # key), key)

\* @lru_cache(maxsize=1000): key becomes the most recently used input, the
\* least recently used one leaves when the cache is over its size
EmbeddingCacheInsert(cache, key) ==
    LET grown == Append(SelectSeq(cache, LAMBDA k : k # key), key)
    IN  IF Len(grown) > EmbeddingCacheSize THEN Tail(grown) ELSE grown

\* _get_embedding_cached(text): a cached input is answered from the cache; any
\* other input is handed to embedding_model.encode, and is cached only when
\* encode returns
_get_embedding_cached(cache, faults, key) ==
    IF InCache(cache, key)
    THEN [cache |-> EmbeddingCacheInsert(cache, key), encoded |-> << >>, raises |-> FALSE]
    ELSE IF "embedding" \in faults
         THEN [cache |-> cache, encoded |-> << key >>, raises |-> TRUE]
         ELSE [cache |-> EmbeddingCacheInsert(cache, key), encoded |-> << key >>,
               raises |-> FALSE]

\* enriched_query of recherche_semantique
EnrichedQuery(q) == << "m", "e", "d", "i", "c", "a", "m", "e", "n", "t", ":", " " >> \o Strip(q)

\* the embedding step of recherche_semantique and hybrid_search: skipped by the
\* guard on available and query
EmbeddingStep(avail, cache, faults, q) ==
    IF ~avail \/ q = << >>
    THEN [cache |-> cache, encoded |-> << >>, raises |-> FALSE]
    ELSE _get_embedding_cached(cache, faults, EnrichedQuery(q))

\* the collaborators that raise during one operation: the embedding model is
\* not called, hence does not raise, on a cached input
RaisedDuring(step, faults) ==
    IF step.raises THEN faults ELSE faults \ {"embedding"}

\* recherche_semantique(query, limit, score_threshold); the except clause
\* turns an exception of the embedding or of the search into []
recherche_semantique(avail, faults, pad, named, idx, q, lim, threshold) ==
    IF ~avail \/ q = << >> THEN << >>
    ELSE IF faults # {} THEN << >>
    ELSE IF FormatRaises(Search(pad, named, idx, lim * 3)) THEN << >>
    ELSE IF RerankRaises(FormatHits(Search(pad, named, idx, lim * 3))) THEN << >>
    ELSE LET q1 == Strip(q)
             search_results == Search(pad, named, idx, lim * 3)
             results == FormatHits(search_results)
             reranked == _rerank_results(q1, results)
             final_results == SelectSeq(reranked, LAMBDA r : r.score >= threshold)
         IN  Take(final_results, lim)

ScrollLimitHybrid == 2000

\* hybrid_search, step 2: the score of one name against the query
NameScore(query_lower, nom) ==
    IF query_lower = nom THEN Scale
    ELSE IF StartsWith(nom, query_lower) THEN Times(Scale, 95, 100)
    ELSE IF Contains(nom, query_lower) THEN Times(Scale, 85, 100)
    ELSE LET matching_chars ==
                 Cardinality({i \in 1..Len(query_lower) :
                                 \E k \in 1..Len(nom) : nom[k] = query_lower[i]})
         IN  IF query_lower # << >>
             THEN (matching_chars * Times(Scale, 6, 10)) \div Len(query_lower)
             ELSE 0

\* hybrid_search, step 2: name_matches over the scrolled points
NameMatches(pad, named, q) ==
    LET query_lower == Strip(Lower(q))
        all_docs == Scroll(pad, named, ScrollLimitHybrid)
        entry(doc) ==
            [id |-> doc.id,
             score |-> NameScore(query_lower, Lower(PayloadGet(doc.payload, "nom"))),
             nom |-> PayloadGet(doc.payload, "nom"),
             is_name_match |-> TRUE,
             qdrant_id |-> doc.id]
        all == [i \in 1..Len(all_docs) |-> entry(all_docs[i])]
    IN  SelectSeq(all, LAMBDA m : 2 * m.score >= Scale)

\* hybrid_search, step 2: doc.payload.get on an absent payload and .lower() on
\* a null name raise AttributeError
ScanRaises(all_docs) ==
    \E i \in 1..Len(all_docs) :
        \/ "NoneType" \in DOMAIN all_docs[i].payload
        \/ PayloadGet(all_docs[i].payload, "nom") = None

\* position of key in the insertion-ordered dict combined, 0 when absent
KeyPos(combined, key) ==
    IF \E i \in 1..Len(combined) : combined[i].id = key
    THEN CHOOSE i \in 1..Len(combined) : combined[i].id = key
    ELSE 0

\* hybrid_search, step 3: one vector result merged into combined
FuseAppend(combined, result) == Append(combined, result)

FuseKeepingNameFields(combined, result) ==
    LET pos == KeyPos(combined, result.id)
    IN  IF pos # 0
        THEN [combined EXCEPT ![pos].score =
                 Times(combined[pos].score, 6, 10) + Times(result.score, 4, 10)]
        ELSE Append(combined, result)

Fuse(combined, result) ==
    LET pos == KeyPos(combined, result.id)
        old == combined[pos]
        merged ==
            [k \in DOMAIN old \cup DOMAIN result |->
                IF k = "score"
                THEN Times(old.score, 6, 10) + Times(result.score, 4, 10)
                ELSE IF k \in DOMAIN result THEN result[k] ELSE old[k]]
    IN  IF pos # 0 THEN [combined EXCEPT ![pos] = merged]
        ELSE Append(combined, result)

RECURSIVE FuseAll(_, _)
FuseAll(combined, vector_results) ==
    IF vector_results = << >> THEN combined
    ELSE FuseAll(Fuse(combined, vector_results[1]), Tail(vector_results))

\* hybrid_search(query, limit); recherche_semantique returns normally, the
\* except clause turns an exception of the scroll into []
hybrid_search(avail, faults, pad, named, idx, q, lim) ==
    IF ~avail \/ q = << >> THEN << >>
    ELSE IF "index" \in faults THEN << >>
    ELSE IF ScanRaises(Scroll(pad, named, ScrollLimitHybrid)) THEN << >>
    ELSE LET vector_results ==
                 recherche_semantique(avail, faults, pad, named, idx, q, lim * 2, 0)
             name_matches == NameMatches(pad, named, q)
             combined == FuseAll(name_matches, vector_results)
             final_results == SortByScoreDesc(combined)
         IN  Take(final_results, lim)


ScrollLimitAutocomplete == 5000

\* recherche_autocomplete: sort_key(item)
sort_key(item, query_lower) ==
    LET nom_lower == Lower(item.nom)
    IN  IF nom_lower = query_lower THEN [tier |-> 0, nom |-> item.nom]
        ELSE IF StartsWith(nom_lower, query_lower) THEN [tier |-> 1, nom |-> item.nom]
        ELSE [tier |-> 2, nom |-> item.nom]

\* tuple comparison a <= b of two sort keys
KeyLeq(a, b) ==
    \/ a.tier < b.tier
    \/ a.tier = b.tier /\ ~StrLess(b.nom, a.nom)

\* suggestions.sort(key=sort_key): stable, ascending
RECURSIVE InsertByKey(_, _, _)
InsertByKey(sorted, x, query_lower) ==
    IF sorted = << >> THEN << x >>
    ELSE IF KeyLeq(sort_key(sorted[1], query_lower), sort_key(x, query_lower))
         THEN << sorted[1] >> \o InsertByKey(Tail(sorted), x, query_lower)
         ELSE << x >> \o sorted

RECURSIVE SortByKey(_, _)
SortByKey(lst, query_lower) ==
    IF lst = << >> THEN << >>
    ELSE InsertByKey(SortByKey(SubSeq(lst, 1, Len(lst) - 1), query_lower),
                     lst[Len(lst)], query_lower)

\* recherche_autocomplete(query, limit)
recherche_autocomplete(avail, pad, named, q, lim) ==
    IF ~avail \/ q = << >> THEN << >>
    ELSE LET query_lower == Lower(q)
             all_docs == Scroll(pad, named, ScrollLimitAutocomplete)
             hits == SelectSeq(all_docs,
                               LAMBDA doc : Contains(Lower(PayloadGet(doc.payload, "nom")),
                                                   query_lower))
             suggestions ==
                 [i \in 1..Len(hits) |->
                     [id |-> hits[i].id, nom |-> PayloadGet(hits[i].payload, "nom"),
                      qdrant_id |-> hits[i].id]]
         IN  Take(SortByKey(suggestions, query_lower), lim)

-----------------------------------------------------------------------------
(* Inputs of the search operations.                                        *)

MaxLimit == 3

\* raw similarities the index may report: below 0, below the 0.15 pre-filter,
\* in the low-score band, ordinary, above 1
RawScores == {-200000, 100000, 150000, 500000, 1300000}

Queries ==
    { << "d", "o", "l", "i", "p", "r", "a", "n", "e" >>, << "D", "O", "L", "I", "P", "R", "A", "N", "E", " " >>, << "m", "a", "l", " ", "t", "e", "t", "e", " ", "f", "o", "r", "t", "e" >>, << "a", "s", "p", "i", "r", "i", "n", "a" >>, << >> }

Thresholds == {0, Times(Scale, 25, 100)}

\* the rankings the index may return: every named point once, best first
Rankings(named) ==
    LET n == Len(named)
    IN  {r \in [1..n -> [doc : 1..n, raw : RawScores]] :
            /\ \A i, j \in 1..n : i # j => r[i].doc # r[j].doc
            /\ \A i \in 1..(n - 1) : r[i].raw >= r[i + 1].raw}

\* filters = None, the default of search_with_filters
NoneFilters == [NoneType |-> TRUE]

InitSearchIdle ==
    /\ available = TRUE
    /\ fault = {}
    /\ index = << >>
    /\ corpusPad = 0
    /\ corpus = << >>
    /\ query = << >>
    /\ limit = 1
    /\ filters = NoneFilters
    /\ score_threshold = 0
    /\ op = "none"
    /\ out = << >>
    /\ embCache = << >>
    /\ encoded = << >>

InitKeywordIdle ==
    /\ medicine = << >>
    /\ search_query = << >>
    /\ kwScore = 0
    /\ kwCalls = 0
    /\ raised = "none"
    /\ locations = << >>
    /\ located = FALSE

InitExcerptIdle ==
    /\ text = << >>
    /\ term = << >>
    /\ excerpt = << >>

InitDateIdle ==
    /\ date_str = << >>
    /\ dateKey = 0
    /\ dateMemo = << >>
    /\ callers = << >>

InitReformIdle ==
    /\ user_query = << >>
    /\ MISTRAL_API_KEY = FALSE
    /\ llm = << >>
    /\ reformulated = << >>

Init ==
    /\ available \in BOOLEAN
    /\ fault = {}
    /\ corpusPad = 0
    /\ corpus = SearchDocs
    /\ index \in Rankings(SearchDocs)
    /\ query \in Queries
    /\ limit \in 1..MaxLimit
    /\ filters = NoneFilters
    /\ score_threshold = 0
    /\ op = "none"
    /\ out = << >>
    /\ embCache = << >>
    /\ encoded = << >>
    /\ InitKeywordIdle
    /\ InitExcerptIdle
    /\ InitDateIdle
    /\ InitReformIdle

Semantic(threshold) ==
    LET step == EmbeddingStep(available, embCache, fault, query)
    IN  /\ score_threshold' = threshold
        /\ op' = "semantic"
        /\ out' = recherche_semantique(available, RaisedDuring(step, fault), corpusPad,
                                       corpus, index, query, limit, threshold)
        /\ embCache' = step.cache
        /\ encoded' = step.encoded
        /\ UNCHANGED <<available, fault, index, corpusPad, corpus, query, limit, filters>>
    /\ UNCHANGED <<keywordVars, excerptVars, dateVars, reformVars>>

Hybrid ==
    LET step == EmbeddingStep(available, embCache, fault, query)
    IN  /\ score_threshold' = 0
        /\ op' = "hybrid"
        /\ out' = hybrid_search(available, RaisedDuring(step, fault), corpusPad, corpus,
                                index, query, limit)
        /\ embCache' = step.cache
        /\ encoded' = step.encoded
        /\ UNCHANGED <<available, fault, index, corpusPad, corpus, query, limit, filters>>
    /\ UNCHANGED <<keywordVars, excerptVars, dateVars, reformVars>>

Next ==
    \/ \E threshold \in Thresholds : Semantic(threshold)
    \/ Hybrid

Spec == Init /\ [][Next]_vars


-----------------------------------------------------------------------------
(* Properties of the search operations.                                    *)

InUnit(x) == 0 <= x /\ x <= Scale

\* the raw similarity the index reported for the point with this id
RawOf(id) == (CHOOSE i \in 1..Len(index) : corpusPad + index[i].doc = id)

\* C1: every result of recherche_semantique and of hybrid_search has a score
\* in [0,1], and every original_score is in [0,1], whatever raw similarity
\* the index reported.
C1_ScoresInUnitInterval ==
    op \in {"semantic", "hybrid"} =>
        \A i \in 1..Len(out) :
            /\ InUnit(out[i].score)
            /\ "original_score" \in DOMAIN out[i] => InUnit(out[i].original_score)

\* a result whose raw similarity was above 1 is returned by both operations
C1_Witness ==
    /\ op = "hybrid"
    /\ \E i \in 1..Len(out) :
          /\ "original_score" \in DOMAIN out[i]
          /\ index[RawOf(out[i].id)].raw > Scale
          /\ out[i].original_score = Scale

\* nom equals the query, case-insensitively
NameEqualsQuery(nom, q) == Strip(Lower(nom)) = Strip(Lower(q))

\* C2: of two candidates with the same normalized vector score, the one whose
\* name equals the query gets a strictly higher re-ranked score than one whose
\* name does not, and is placed before it.
C2_ExactMatchOutranks ==
    op = "semantic" =>
        \A i, j \in 1..Len(out) :
            ( /\ out[i].original_score = out[j].original_score
              /\ NameEqualsQuery(out[i].nom, query)
              /\ ~NameEqualsQuery(out[j].nom, query) )
            => (out[i].score > out[j].score /\ i < j)

\* C3: the list hybrid_search returns holds no two entries with the same id,
\* and is no longer than the vector results plus the name matches.
C3_FusionNoDuplicates ==
    op = "hybrid" =>
        /\ \A i, j \in 1..Len(out) : i # j => out[i].id # out[j].id
        /\ Len(out) <=
              Len(recherche_semantique(available, fault, corpusPad, corpus, index, query,
                                       limit * 2, 0))
              + Len(NameMatches(corpusPad, corpus, query))

\* an id found by both paths is returned once, beside another result
C3_Witness ==
    /\ op = "hybrid"
    /\ Len(out) >= 3
    /\ \E i \in 1..Len(out) :
          /\ "is_name_match" \in DOMAIN out[i]
          /\ "original_score" \in DOMAIN out[i]

\* C10: for a fixed normalized vector score and exact-match delta, a candidate
\* matching at least as many of the query's words (so with at least the same
\* keyword-overlap ratio) never scores lower.
C10_KeywordMonotone ==
    op = "semantic" =>
        \A i, j \in 1..Len(out) :
            LET q == Strip(query)
                mi == KeywordMatches(q, out[i].nom, out[i].indications)
                mj == KeywordMatches(q, out[j].nom, out[j].indications)
            IN  ( /\ QueryWords(q) # {}
                  /\ out[i].original_score = out[j].original_score
                  /\ _exact_match_boost(q, out[i].nom, Scale)
                        = _exact_match_boost(q, out[j].nom, Scale)
                  /\ mi >= mj )
                => out[i].score >= out[j].score

\* two candidates at the same vector score: one matches some of the query's
\* words, the other none, and the first scores strictly higher
C10_Witness ==
    /\ op = "semantic"
    /\ \E i, j \in 1..Len(out) :
          LET q == Strip(query)
              mi == KeywordMatches(q, out[i].nom, out[i].indications)
              mj == KeywordMatches(q, out[j].nom, out[j].indications)
          IN  /\ out[i].original_score = out[j].original_score
              /\ 10 * mi < 4 * Cardinality(QueryWords(q))
              /\ mi > 0 /\ mj = 0
              /\ out[i].score > out[j].score


-----------------------------------------------------------------------------
(* Keyword relevance scorer (app.py).  A document is a dict: a function    *)
(* whose domain is the set of keys present.                                *)

RECURSIVE SumSeq(_)
SumSeq(xs) == IF xs = << >> THEN 0 ELSE xs[1] + SumSeq(Tail(xs))

\* one field against every search term: weight * term_count for each term
\* that occurs, plus bonus when the field is exactly the term
FieldScore(field_lower, search_terms, weight, bonus) ==
    SumSeq([i \in 1..Len(search_terms) |->
               LET term_count == Count(field_lower, search_terms[i])
               IN  IF term_count > 0
                   THEN weight * term_count
                            + (IF field_lower = search_terms[i] THEN bonus ELSE 0)
                   ELSE 0])

\* one field against every search term: what it adds to total_matches
FieldMatches(field_lower, search_terms) ==
    SumSeq([i \in 1..Len(search_terms) |-> Count(field_lower, search_terms[i])])

important_sections ==
    { << "1", ".", " ", "D", "E", "N", "O", "M", "I", "N", "A", "T", "I", "O", "N", " ", "D", "U", " ", "M", "E", "D", "I", "C", "A", "M", "E", "N", "T" >>,
      << "2", ".", " ", "C", "O", "M", "P", "O", "S", "I", "T", "I", "O", "N", " ", "Q", "U", "A", "L", "I", "T", "A", "T", "I", "V", "E", " ", "E", "T", " ", "Q", "U", "A", "N", "T", "I", "T", "A", "T", "I", "V", "E" >> }

\* content items that carry a text, lowercased
ContentTexts(holder) ==
    IF "content" \in DOMAIN holder /\ holder.content # << >>
    THEN LET items == SelectSeq(holder.content, LAMBDA it : "text" \in DOMAIN it)
         IN  [i \in 1..Len(items) |-> Lower(items[i].text)]
    ELSE << >>

\* the scored fields of a document, each lowercased, with weight and bonus
TitleFields(m) ==
    IF "title" \in DOMAIN m
    THEN << [text |-> Lower(m.title), weight |-> 10, bonus |-> 15] >>
    ELSE << >>

SubstanceFields(m) ==
    IF "medicine_details" \in DOMAIN m
       /\ "substances_actives" \in DOMAIN m.medicine_details
    THEN LET subs == m.medicine_details.substances_actives
         IN  [i \in 1..Len(subs) |-> [text |-> Lower(subs[i]), weight |-> 8, bonus |-> 10]]
    ELSE << >>

FormeFields(m) ==
    IF "medicine_details" \in DOMAIN m /\ "forme" \in DOMAIN m.medicine_details
    THEN << [text |-> Lower(m.medicine_details.forme), weight |-> 5, bonus |-> 0] >>
    ELSE << >>

DosageFields(m) ==
    IF "medicine_details" \in DOMAIN m
       /\ "dosages" \in DOMAIN m.medicine_details
       /\ m.medicine_details.dosages # << >>
    THEN LET ds == m.medicine_details.dosages
         IN  [i \in 1..Len(ds) |-> [text |-> Lower(ds[i]), weight |-> 5, bonus |-> 0]]
    ELSE << >>

RECURSIVE Flatten(_)
Flatten(seqs) == IF seqs = << >> THEN << >> ELSE seqs[1] \o Flatten(Tail(seqs))

SubsectionFields(subsection) ==
    << [text |-> Lower(subsection.title), weight |-> 2, bonus |-> 0] >>
    \o LET texts == ContentTexts(subsection)
       IN  [i \in 1..Len(texts) |-> [text |-> texts[i], weight |-> 1, bonus |-> 0]]

SectionFieldsUnweighted(section) ==
    LET texts == ContentTexts(section)
    IN  << [text |-> Lower(section.title), weight |-> 2, bonus |-> 0] >>
        \o [i \in 1..Len(texts) |-> [text |-> texts[i], weight |-> 1, bonus |-> 0]]
        \o (IF "subsections" \in DOMAIN section
            THEN Flatten([i \in 1..Len(section.subsections) |->
                             SubsectionFields(section.subsections[i])])
            ELSE << >>)

SectionFields(section) ==
    LET section_importance == IF section.title \in important_sections THEN 3 ELSE 0
        texts == ContentTexts(section)
    IN  << [text |-> Lower(section.title), weight |-> 2 + section_importance,
            bonus |-> 0] >>
        \o [i \in 1..Len(texts) |->
               [text |-> texts[i], weight |-> 1 + section_importance, bonus |-> 0]]
        \o (IF "subsections" \in DOMAIN section
            THEN Flatten([i \in 1..Len(section.subsections) |->
                             SubsectionFields(section.subsections[i])])
            ELSE << >>)

ScoredFields(m) ==
    TitleFields(m) \o SubstanceFields(m) \o FormeFields(m) \o DosageFields(m)
    \o (IF "sections" \in DOMAIN m
        THEN Flatten([i \in 1..Len(m.sections) |-> SectionFields(m.sections[i])])
        ELSE << >>)

\* total_matches = 0
InitialMatchesFromDocument(m) == IF "match_count" \in DOMAIN m THEN m.match_count ELSE 0

InitialMatches(m) == 0

\* score += total_matches; medicine['match_count'] = total_matches; return score
FinalizeWithTermCount(score, total_matches, search_terms) ==
    [score |-> score + Len(search_terms), match_count |-> total_matches]

Finalize(score, total_matches, search_terms) ==
    [score |-> score + total_matches, match_count |-> total_matches]

\* calculate_relevance_score(medicine, search_query): the returned score and the
\* match_count stored in the document
calculate_relevance_score(m, sq) ==
    LET search_terms == Split(Lower(sq))
        fields == ScoredFields(m)
        score ==
            SumSeq([i \in 1..Len(fields) |->
                       FieldScore(fields[i].text, search_terms, fields[i].weight,
                                  fields[i].bonus)])
        total_matches ==
            InitialMatches(m)
            + SumSeq([i \in 1..Len(fields) |-> FieldMatches(fields[i].text, search_terms)])
    IN  Finalize(score, total_matches, search_terms)

\* medicine['match_count'] = value
SetKey(m, key, value) ==
    [k \in DOMAIN m \cup {key} |-> IF k = key THEN value ELSE m[k]]


\* documents of the keyword path
Titles == { << "D", "o", "l", "i", "p", "r", "a", "n", "e" >>, << "P", "a", "r", "a", " ", "C", "o", "d", "e", "i", "n", "e", " ", "p", "a", "r", "a" >> }

Details ==
    { [substances_actives |-> << << "P", "a", "r", "a", "c", "e", "t", "a", "m", "o", "l" >>, << "C", "o", "d", "e", "i", "n", "e" >> >>,
       forme |-> << "c", "o", "m", "p", "r", "i", "m", "e" >>,
       dosages |-> << << "5", "0", "0", " ", "m", "g" >> >>],
      [forme |-> << "S", "i", "r", "o", "p", " ", "p", "a", "r", "a" >>] }

SectionLists ==
    { << [title |-> << "1", ".", " ", "D", "E", "N", "O", "M", "I", "N", "A", "T", "I", "O", "N", " ", "D", "U", " ", "M", "E", "D", "I", "C", "A", "M", "E", "N", "T" >>,
          content |-> << [text |-> << "D", "o", "l", "i", "p", "r", "a", "n", "e", " ", "5", "0", "0", " ", "m", "g", "." >>] >>,
          subsections |->
              << [title |-> << "C", "o", "d", "e", "i", "n", "e" >>,
                  content |-> << [text |-> << "p", "a", "r", "a", " ", "p", "a", "r", "a" >>] >>] >>] >>,
      << [title |-> << "E", "f", "f", "e", "t", "s" >>,
          content |-> << [text |-> << "C", "o", "d", "e", "i", "n", "e", ".", " ", "R", "a", "r", "e", "!" >>], [image |-> << "x" >>] >>],
         [title |-> << "P", "a", "r", "a" >>] >> }

\* an optional entry: << >> when the key is left out, << value >> otherwise
Optional(values) == { << >> } \cup { << v >> : v \in values }

Documents ==
    { [k \in {x \in {"title", "medicine_details", "sections"} :
                 (x = "title" /\ Len(t) = 1)
                 \/ (x = "medicine_details" /\ Len(d) = 1)
                 \/ (x = "sections" /\ Len(sl) = 1)} |->
          IF k = "title" THEN t[1] ELSE IF k = "medicine_details" THEN d[1] ELSE sl[1]] :
      t \in Optional(Titles),
      d \in Optional(Details),
      sl \in Optional(SectionLists) }

SearchQueries ==
    { << "d", "o", "l", "i", "p", "r", "a", "n", "e" >>, << "P", "A", "R", "A", " ", "c", "o", "d", "e", "i", "n", "e" >>, << "p", "a", "r", "a", " ", "p", "a", "r", "a" >>, << "x", "y", "z" >>, << "5", "0", "0", " ", "m", "g" >>, << " ", " " >>, << >> }

MaxCalls == 2

InitKeyword ==
    /\ medicine \in Documents
    /\ search_query \in SearchQueries
    /\ kwScore = 0
    /\ kwCalls = 0
    /\ raised = "none"
    /\ locations = << >>
    /\ located = FALSE
    /\ InitSearchIdle
    /\ InitExcerptIdle
    /\ InitDateIdle
    /\ InitReformIdle

\* what calculate_relevance_score raises on the document: section['title'] and
\* subsection['title'] are read without a guard
ScorerException(m) ==
    IF /\ "sections" \in DOMAIN m
       /\ \E i \in 1..Len(m.sections) :
             \/ "title" \notin DOMAIN m.sections[i]
             \/ /\ "subsections" \in DOMAIN m.sections[i]
                /\ \E j \in 1..Len(m.sections[i].subsections) :
                      "title" \notin DOMAIN m.sections[i].subsections[j]
    THEN "KeyError"
    ELSE "none"

\* relevance_score = calculate_relevance_score(medicine, search_query)
Score ==
    /\ kwCalls < MaxCalls
    /\ raised' = ScorerException(medicine)
    /\ IF ScorerException(medicine) # "none"
       THEN UNCHANGED <<kwScore, medicine>>
       ELSE LET r == calculate_relevance_score(medicine, search_query)
            IN  /\ kwScore' = r.score
                /\ medicine' = SetKey(medicine, "match_count", r.match_count)
    /\ kwCalls' = kwCalls + 1
    /\ UNCHANGED <<search_query, locations, located>>
    /\ UNCHANGED <<searchVars, excerptVars, dateVars, reformVars>>

NextKeyword == Score

SpecKeyword == InitKeyword /\ [][NextKeyword]_vars

\* some lowercased query term occurs in some scored field, case-insensitively
SomeTermOccurs(m, sq) ==
    \E t \in Range(Split(Lower(sq))) :
        \E i \in 1..Len(ScoredFields(m)) : Contains(ScoredFields(m)[i].text, t)

\* C4: when no query term occurs in any scored field, calculate_relevance_score
\* returns 0 and stores match_count 0; match_count is never negative.
C4_NoSharedTermScoresZero ==
    kwCalls >= 1 =>
        /\ medicine.match_count >= 0
        /\ ~SomeTermOccurs(medicine, search_query) =>
              (kwScore = 0 /\ medicine.match_count = 0)

\* a query with terms, scored against a document with fields, shares no term
C4_Witness ==
    /\ kwCalls >= 1
    /\ Split(Lower(search_query)) # << >>
    /\ ScoredFields(medicine) # << >>
    /\ ~SomeTermOccurs(medicine, search_query)
    /\ kwScore = 0

\* C5: a repeated call on the same document and query returns the same score
\* and stores the same match_count as the call before it.
C5_ScorerIdempotent ==
    [][(kwCalls >= 1 /\ kwCalls' = kwCalls + 1) =>
          (kwScore' = kwScore /\ medicine'.match_count = medicine.match_count)]_vars

\* a second call on a document whose first call stored a positive match_count
C5_Witness ==
    /\ kwCalls >= 2
    /\ medicine.match_count > 0
    /\ kwScore > 0


-----------------------------------------------------------------------------
(* Excerpt extraction (app.py).                                            *)

MaxSentence == 150
Window == 60
HeadLength == 100

Ellipsis == << ".", ".", "." >>

\* extract_excerpt: sentence_start
SentenceStart(text_lower, pos) ==
    LET at_dot == Max(0, RFind(text_lower, << "." >>, pos))
    IN  IF at_dot = 0
        THEN Max(0, RFind(text_lower, << "?" >>, pos))
        ELSE at_dot

\* extract_excerpt: sentence_end
SentenceEnd(text_lower, pos) ==
    LET dot == Find(text_lower, << "." >>, pos)
        bang == Find(text_lower, << "!" >>, pos)
        quest == Find(text_lower, << "?" >>, pos)
    IN  IF dot # -1 THEN dot + 1
        ELSE IF bang # -1 THEN bang
        ELSE IF quest # -1 THEN quest
        ELSE Len(text_lower)

\* extract_excerpt(text, term)
extract_excerpt(txt, trm) ==
    LET term_lower == Lower(trm)
        text_lower == Lower(txt)
        pos == Find(text_lower, term_lower, 0)
        sentence_start == SentenceStart(text_lower, pos)
        sentence_end == SentenceEnd(text_lower, pos)
        long == sentence_end - sentence_start > MaxSentence
        start_pos == IF long THEN Max(0, pos - Window) ELSE sentence_start
        end_pos == IF long THEN Min(Len(txt), pos + Len(trm) + Window) ELSE sentence_end
    IN  IF pos = -1 THEN Slice(txt, 0, HeadLength) \o Ellipsis
        ELSE (IF start_pos > 0 THEN Ellipsis ELSE << >>)
             \o Slice(txt, start_pos, end_pos)
             \o (IF end_pos < Len(txt) THEN Ellipsis ELSE << >>)

\* texts: what precedes the sentence, the sentence, its terminator, what follows
Filler(n) == [i \in 1..n |-> "x"]

Befores == { << >>, << "A", "v", "a", "n", "t", "." >>, << "Q", "u", "o", "i", "?" >>, << "A", "h", "!", " ", "B", "o", "n", "?" >>, Filler(HeadLength) \o << "." >> }

Sentences ==
    { << " ", "P", "r", "e", "n", "d", "r", "e", " ", "D", "o", "l", "i", "p", "r", "a", "n", "e", " ", "l", "e", " ", "s", "o", "i", "r" >>,
      << " " >> \o Filler(MaxSentence) \o << " ", "d", "o", "l", "i", "p", "r", "a", "n", "e", " " >>,
      << " ", "L", "e", " ", "d", "o", "l", "i", "p", "r", "a", "n", "e" >> \o Filler(MaxSentence - 14) }

Terminators == { << >>, << "." >>, << "!" >>, << "?" >> }

Afters == { << >>, << " ", "S", "u", "i", "t", "e", "." >>, << " ", "F", "i", "n" >> }

\* a 40-character sentence with the term at offset 10, in a 500-character text
ExampleSentence ==
    << "P", "r", "e", "n", "e", "z", " ", "d", "u", " ", "d", "o", "l", "i", "p", "r", "a", "n", "e", " ", "c", "o", "n", "t", "r", "e", " ", "l", "a", " ", "f", "i", "e", "v", "r", "e", " ", "c", "e", "." >>

ExampleText ==
    Filler(229) \o << "." >> \o ExampleSentence \o Filler(229) \o << "." >>

Texts ==
    { b \o s \o t \o a : b \in Befores, s \in Sentences, t \in Terminators, a \in Afters }
    \cup { ExampleText }

Terms == { << "d", "o", "l", "i", "p", "r", "a", "n", "e" >>, << "D", "O", "L", "I" >>, << "a", "s", "p", "i", "r", "i", "n", "e" >> }

\* terms holding a sentence delimiter, as query.lower().split() yields them,
\* and texts in which they occur
PunctuatedTerms == { << "0", ".", "5" >>, << "o", "k", "!" >>, << "m", "g", "." >>, << "q", "u", "o", "i", "?" >> }

PunctuatedTexts ==
    { << "D", "o", "s", "e", " ", "0", ".", "5", " ", "m", "g", " ", "p", "a", "r", " ", "j", "o", "u", "r", ".", " ", "S", "u", "i", "t", "e" >>, << "T", "o", "u", "t", " ", "e", "s", "t", " ", "o", "k", "!", " ", "F", "i", "n" >>, << "T", "o", "u", "t", " ", "e", "s", "t", " ", "O", "K", "!", " ", "F", "i", "n", "." >>,
      << "P", "r", "e", "n", "d", "r", "e", " ", "5", "0", "0", " ", "m", "g", ".", " ", "L", "e", " ", "s", "o", "i", "r" >>, << "A", "v", "a", "n", "t", ".", " ", "A", "l", "o", "r", "s", " ", "q", "u", "o", "i", "?", " ", "R", "i", "e", "n" >> }

NotExtracted == << "<none>" >>

InitExcerpt ==
    /\ text \in Texts \cup PunctuatedTexts
    /\ term \in Terms \cup PunctuatedTerms
    /\ excerpt = NotExtracted
    /\ InitSearchIdle
    /\ InitKeywordIdle
    /\ InitDateIdle
    /\ InitReformIdle

\* excerpt = extract_excerpt(content_item['text'], term)
Extract ==
    /\ excerpt = NotExtracted
    /\ excerpt' = extract_excerpt(text, term)
    /\ UNCHANGED <<text, term>>
    /\ UNCHANGED <<searchVars, keywordVars, dateVars, reformVars>>

NextExcerpt == Extract

SpecExcerpt == InitExcerpt /\ [][NextExcerpt]_vars

SentenceDelimiters == {".", "!", "?"}

\* 0-based offset of the first occurrence of the term, case-insensitively
FirstOccurrence == Find(Lower(text), Lower(term), 0)

\* the sentence enclosing the first occurrence: from the first character after
\* the nearest delimiter before it to the nearest delimiter after it, included
EnclosingStart ==
    LET before == {i \in 0..(FirstOccurrence - 1) : text[i + 1] \in SentenceDelimiters}
    IN  IF before = {} THEN 0
        ELSE 1 + (CHOOSE i \in before : \A j \in before : i >= j)

EnclosingEnd ==
    LET after == {i \in (FirstOccurrence + Len(term))..(Len(text) - 1) :
                     text[i + 1] \in SentenceDelimiters}
    IN  IF after = {} THEN Len(text)
        ELSE 1 + (CHOOSE i \in after : \A j \in after : i <= j)

EnclosingSentence == Slice(text, EnclosingStart, EnclosingEnd)

\* C6: when the sentence enclosing the first occurrence of the term is at most
\* 150 characters long, extract_excerpt returns exactly that sentence, with no
\* leading or trailing ellipsis.
C6_ShortSentenceReturnedExactly ==
    ( /\ excerpt # NotExtracted
      /\ FirstOccurrence # -1
      /\ Len(EnclosingSentence) <= MaxSentence )
    => excerpt = EnclosingSentence


-----------------------------------------------------------------------------
(* Date-sort key (app.py).  A value handed to the conversion is a record   *)
(* of its Python type and, for a str, its characters.                      *)

Digits == {"0", "1", "2", "3", "4", "5", "6", "7", "8", "9"}

DigitValue(c) == Ord(c) - Ord("0")

RECURSIVE DigitsValue(_)
DigitsValue(ds) ==
    IF ds = << >> THEN 0
    ELSE 10 * DigitsValue(SubSeq(ds, 1, Len(ds) - 1)) + DigitValue(ds[Len(ds)])

\* int(part): surrounding whitespace and one sign are accepted; ok is FALSE
\* where int() raises ValueError
IntParse(part) ==
    LET t == Strip(part)
        signed == t # << >> /\ t[1] \in {"+", "-"}
        body == IF signed THEN Tail(t) ELSE t
        ok == body # << >> /\ \A i \in 1..Len(body) : body[i] \in Digits
    IN  [ok |-> ok,
         value |-> IF ~ok THEN 0
                   ELSE IF signed /\ t[1] = "-" THEN 0 - DigitsValue(body)
                   ELSE DigitsValue(body)]

\* the body of convert_french_date_cached(date_str)
DateKeyOfParts(parts) ==
    LET day == IntParse(parts[1])
        month == IntParse(parts[2])
        year == IntParse(parts[3])
    IN  IF day.ok /\ month.ok /\ year.ok
        THEN year.value * 10000 + month.value * 100 + day.value
        ELSE 0

convert_french_date_body(d) ==
    IF d.type # "str" \/ d.value = << >> THEN 0
    ELSE IF Contains(d.value, << "/" >>)
         THEN LET parts == SplitOn(d.value, "/")
              IN  IF Len(parts) = 3 THEN DateKeyOfParts(parts) ELSE 0
         ELSE 0

DateCacheSize == 1024

\* position of a key in the memo, 0 when absent
MemoPos(memo, d) ==
    IF \E i \in 1..Len(memo) : memo[i].key = d
    THEN CHOOSE i \in 1..Len(memo) : memo[i].key = d
    ELSE 0

\* @lru_cache(maxsize=1024): the memo after a call with d, least recently
\* used entry first
MemoAfter(memo, d) ==
    LET pos == MemoPos(memo, d)
        without == SelectSeq(memo, LAMBDA e : e.key # d)
        entry == [key |-> d,
                  value |-> IF pos # 0 THEN memo[pos].value
                            ELSE convert_french_date_body(d)]
        grown == Append(without, entry)
    IN  IF Len(grown) > DateCacheSize THEN Tail(grown) ELSE grown

\* convert_french_date_cached(date_str)
convert_french_date_cached(memo, d) ==
    LET pos == MemoPos(memo, d)
    IN  IF pos # 0 THEN memo[pos].value ELSE convert_french_date_body(d)

MissingDate == [type |-> "missing", value |-> << >>]

DateInputs ==
    { [type |-> "str", value |-> v] :
        v \in { << "0", "5", "/", "0", "3", "/", "2", "0", "2", "4" >>, << "5", "/", "3", "/", "2", "0", "2", "4" >>, << "3", "1", "/", "1", "2", "/", "1", "9", "9", "9" >>, << "4", "5", "/", "1", "3", "/", "2", "0", "2", "4" >>, << "2", "0", "2", "4", "/", "0", "3", "/", "0", "5" >>,
                << "0", "5", "/", "0", "3" >>, << "0", "5", "/", "0", "3", "/", "2", "0", "2", "4", "/", "1" >>, << "0", "5", "-", "0", "3", "-", "2", "0", "2", "4" >>, << "0", "5", "/", "x", "x", "/", "2", "0", "2", "4" >>, << "/", "/" >>, << >>,
                << " ", "0", "5", "/", "0", "3", "/", "2", "0", "2", "4", " " >>, << "-", "5", "/", "0", "3", "/", "2", "0", "2", "4" >> } }
    \cup { [type |-> "NoneType", value |-> << >>],
           [type |-> "int", value |-> << "2", "0", "2", "4", "0", "3", "0", "5" >>],
           MissingDate }

MaxMemo == 2

UnsetDate == [type |-> "unset", value |-> << >>]

InitDate ==
    /\ date_str = UnsetDate
    /\ dateKey = 0
    /\ dateMemo = << >>
    /\ callers = << >>
    /\ InitSearchIdle
    /\ InitKeywordIdle
    /\ InitExcerptIdle
    /\ InitReformIdle

\* sort_medicines_by_date.convert_french_date(medicine), d being
\* medicine['update_date'] or MissingDate when the key is absent
ConvertDate(d) ==
    /\ MemoPos(dateMemo, d) # 0 \/ Len(dateMemo) < MaxMemo \/ d = MissingDate
    /\ date_str' = d
    /\ IF d = MissingDate
       THEN dateKey' = 0 /\ UNCHANGED dateMemo
       ELSE /\ dateKey' = convert_french_date_cached(dateMemo, d)
            /\ dateMemo' = MemoAfter(dateMemo, d)
    /\ UNCHANGED callers
    /\ UNCHANGED <<searchVars, keywordVars, excerptVars, reformVars>>

NextDate == \E d \in DateInputs : ConvertDate(d)

SpecDate == InitDate /\ [][NextDate]_vars

\* a str of exactly three '/'-separated runs of digits
ThreeNumbers(d) ==
    /\ d.type = "str"
    /\ LET parts == SplitOn(d.value, "/")
       IN  /\ Len(parts) = 3
           /\ \A i \in 1..3 :
                 parts[i] # << >> /\ \A k \in 1..Len(parts[i]) : parts[i][k] \in Digits

DayOf(d) == DigitsValue(SplitOn(d.value, "/")[1])
MonthOf(d) == DigitsValue(SplitOn(d.value, "/")[2])
YearOf(d) == DigitsValue(SplitOn(d.value, "/")[3])

\* a well-formed DD/MM/YYYY date: day, month, year in that order and in range
WellFormedDate(d) ==
    /\ ThreeNumbers(d)
    /\ DayOf(d) \in 1..31
    /\ MonthOf(d) \in 1..12

\* C7: a well-formed DD/MM/YYYY string maps to YYYY*10000+MM*100+DD, and every
\* other input (empty, None, non-string, not three integer parts, day or month
\* out of range, parts not in day/month/year order) maps to 0.
C7_DateKeyOrZero ==
    date_str # UnsetDate =>
        dateKey = IF WellFormedDate(date_str)
                  THEN YearOf(date_str) * 10000 + MonthOf(date_str) * 100
                           + DayOf(date_str)
                  ELSE 0


-----------------------------------------------------------------------------
(* Query reformulation (ai_summary.py).                                    *)

medical_synonyms ==
    (<< "t", "e", "t", "e" >> :>
        << << "c", "e", "p", "h", "a", "l", "e", "e" >>,
           << "m", "i", "g", "r", "a", "i", "n", "e" >>,
           << "c", "r", "a", "n", "i", "e", "n" >>,
           << "d", "o", "u", "l", "e", "u", "r" >>,
           << "c", "e", "p", "h", "a", "l", "a", "l", "g", "i", "e", "s" >> >>) @@
    (<< "g", "r", "i", "p", "p", "e" >> :>
        << << "i", "n", "f", "l", "u", "e", "n", "z", "a" >>,
           << "v", "i", "r", "a", "l" >>,
           << "i", "n", "f", "e", "c", "t", "i", "o", "n" >>,
           << "f", "i", "e", "v", "r", "e" >> >>) @@
    (<< "f", "i", "e", "v", "r", "e" >> :>
        << << "p", "y", "r", "e", "x", "i", "e" >>,
           << "h", "y", "p", "e", "r", "t", "h", "e", "r", "m", "i", "e" >>,
           << "t", "e", "m", "p", "e", "r", "a", "t", "u", "r", "e" >> >>) @@
    (<< "r", "e", "s", "p", "i", "r", "a", "t", "i", "o", "n" >> :>
        << << "d", "y", "s", "p", "n", "e", "e" >>,
           << "a", "s", "t", "h", "m", "e" >>,
           << "b", "r", "o", "n", "c", "h", "i", "t", "e" >>,
           << "p", "u", "l", "m", "o", "n", "a", "i", "r", "e" >>,
           << "t", "o", "u", "x" >> >>) @@
    (<< "v", "e", "n", "t", "r", "e" >> :>
        << << "a", "b", "d", "o", "m", "e", "n" >>,
           << "a", "b", "d", "o", "m", "i", "n", "a", "l" >>,
           << "g", "a", "s", "t", "r", "i", "t", "e" >> >>) @@
    (<< "m", "i", "g", "r", "a", "i", "n", "e" >> :>
        << << "c", "e", "p", "h", "a", "l", "e", "e" >>,
           << "t", "e", "t", "e" >>,
           << "c", "r", "a", "n", "i", "e", "n" >> >>) @@
    (<< "n", "a", "u", "s", "e", "e" >> :>
        << << "v", "o", "m", "i", "s", "s", "e", "m", "e", "n", "t" >>,
           << "d", "i", "g", "e", "s", "t", "i", "f" >> >>) @@
    (<< "t", "o", "u", "x" >> :>
        << << "e", "x", "p", "e", "c", "t", "o", "r", "a", "n", "t" >>,
           << "r", "e", "s", "p", "i", "r", "a", "t", "o", "i", "r", "e" >>,
           << "b", "r", "o", "n", "c", "h", "i", "t", "e" >> >>) @@
    (<< "a", "l", "l", "e", "r", "g", "i", "e" >> :>
        << << "a", "l", "l", "e", "r", "g", "i", "q", "u", "e" >>,
           << "r", "e", "a", "c", "t", "i", "o", "n" >>,
           << "u", "r", "t", "i", "c", "a", "i", "r", "e" >> >>)

stopwords ==
    { << "j", "'", "a", "i" >>,
      << "a", "i" >>,
      << "j", "e" >>,
      << "m", "e" >>,
      << "m", "a" >>,
      << "m", "o", "n" >>,
      << "m", "e", "s" >>,
      << "t", "u" >>,
      << "t", "e" >>,
      << "t", "a" >>,
      << "t", "o", "n" >>,
      << "t", "e", "s" >>,
      << "i", "l" >>,
      << "e", "l", "l", "e" >>,
      << "e", "l", "l", "e", "s" >>,
      << "i", "l", "s" >>,
      << "l", "e", "u", "r" >>,
      << "l", "u", "i" >>,
      << "n", "o", "u", "s" >>,
      << "v", "o", "u", "s" >>,
      << "e", "t" >>,
      << "o", "u" >>,
      << "m", "a", "i", "s" >>,
      << "c", "a", "r" >>,
      << "d", "o", "n", "c" >>,
      << "p", "a", "r" >>,
      << "p", "o", "u", "r" >>,
      << "a", "v", "e", "c" >>,
      << "s", "a", "n", "s" >>,
      << "s", "o", "u", "s" >>,
      << "s", "u", "r" >>,
      << "d", "a", "n", "s" >>,
      << "a~" >>,
      << "a", "u" >>,
      << "a", "u", "x" >>,
      << "u", "n" >>,
      << "u", "n", "e" >>,
      << "d", "e", "s" >>,
      << "d", "u" >>,
      << "l", "a" >>,
      << "l", "e" >>,
      << "l", "e", "s" >>,
      << "d", "e" >>,
      << "q", "u", "e" >>,
      << "q", "u", "i" >>,
      << "c", "e" >>,
      << "s", "e", "s" >>,
      << "s", "o", "n" >>,
      << "b", "e", "a", "u", "c", "o", "u", "p" >>,
      << "t", "r", "e~", "s" >>,
      << "u", "n", " ", "p", "e", "u" >>,
      << "t", "r", "o", "p" >>,
      << "a", "s", "s", "e", "z" >>,
      << "p", "l", "u", "s" >>,
      << "m", "o", "i", "n", "s" >>,
      << "p", "l", "u", "t", "o~", "t" >>,
      << "d", "e", "p", "u", "i", "s" >>,
      << "j", "o", "u", "r", "s" >>,
      << "j", "o", "u", "r" >>,
      << "n", "u", "i", "t" >>,
      << "s", "e", "m", "a", "i", "n", "e" >>,
      << "m", "o", "i", "s" >>,
      << "a", "n", "s" >>,
      << "a", "n" >>,
      << "h", "e", "u", "r", "e" >>,
      << "s", "o", "u", "f", "f", "r", "e" >>,
      << "s", "o", "u", "f", "f", "r", "i", "r" >>,
      << "p", "r", "o", "b", "l", "e~", "m", "e" >>,
      << "t", "r", "o", "u", "b", "l", "e" >>,
      << "s", "u", "i", "s" >>,
      << "e", "s", "t" >>,
      << "a", "v", "o", "i", "r" >>,
      << "q", "u", "o", "i" >>,
      << "c", "o", "m", "m", "e", "n", "t" >>,
      << "p", "o", "u", "r", "q", "u", "o", "i" >>,
      << "q", "u", "a", "n", "d" >>,
      << "o", "u~" >>,
      << "c~", "a" >>,
      << "p", "a", "s" >>,
      << "n", "e" >>,
      << "n", "i" >> }

\* sorted(set of str)
RECURSIVE SortStrings(_)
SortStrings(strs) ==
    IF strs = {} THEN << >>
    ELSE LET least == CHOOSE x \in strs : \A y \in strs : x = y \/ StrLess(x, y)
         IN  << least >> \o SortStrings(strs \ {least})

\* expanded.update(medical_synonyms[word]) for every kept word
WithSynonyms(words) ==
    words \cup UNION { Range(medical_synonyms[w]) : w \in words \cap DOMAIN medical_synonyms }

Punctuation == {".", ",", "!", "?", ";", ":", "-"}

\* the local fallback: words kept after word.strip('.,!?;:-')
CleanWords(uq) ==
    { w \in { StripChars(word, Punctuation) : word \in Range(Split(Lower(uq))) } :
        w \notin stopwords /\ Len(w) > 2 }

\* the local fallback of call_mistral_reformulate
LocalExpansionNoSynonyms(uq) ==
    LET expanded == CleanWords(uq)
    IN  IF expanded # {} THEN Join(SortStrings(expanded), << " " >>) ELSE uq

LocalExpansion(uq) ==
    LET expanded == WithSynonyms(CleanWords(uq))
    IN  IF expanded # {} THEN Join(SortStrings(expanded), << " " >>) ELSE uq

\* str.replace(old, '') for each one-character old in chars
RemoveChars(s, chars) == SelectSeq(s, LAMBDA c : c \notin chars)

\* str.replace(old, new) for one-character strings
ReplaceChar(s, old, new) == [i \in 1..Len(s) |-> IF s[i] = old THEN new ELSE s[i]]

\* the cleaned answer of the model
CleanAnswer(content) ==
    ReplaceChar(RemoveChars(Lower(Strip(content)), {"\"", "'", ":"}), ",", " ")

ParasiteMarks == { << "q", "u", "e", "s", "t", "i", "o", "n" >>, << "r", "e", "p", "o", "n", "s", "e" >>, << "e", "x", "e", "m", "p", "l", "e" >>, << "m", "o", "t", "s" >> }

\* what one line of the answer yields: the expanded words, empty when the
\* line is skipped or holds nothing usable
LineExpansion(line) ==
    LET stripped == Strip(line)
    IN  IF stripped = << >> \/ \E x \in ParasiteMarks : Contains(stripped, x)
        THEN {}
        ELSE WithSynonyms({ w \in Range(Split(stripped)) :
                              w \notin stopwords /\ Len(w) > 2 })

\* the lines of the answer that yield a result, in order
UsableLines(content) ==
    SelectSeq(SplitOn(CleanAnswer(content), "\n"), LAMBDA line : LineExpansion(line) # {})

\* call_mistral_reformulate(user_query), key being whether MISTRAL_API_KEY is
\* set and answer what the call to the model does
call_mistral_reformulate(uq, key, answer) ==
    IF ~key THEN LocalExpansion(uq)
    ELSE IF answer.raises THEN LocalExpansion(uq)
    ELSE IF UsableLines(answer.content) # << >>
         THEN Join(SortStrings(LineExpansion(UsableLines(answer.content)[1])), << " " >>)
    ELSE LocalExpansion(uq)

UserQueries ==
    { << "g", "r", "i", "p", "p", "e" >>, << "J", "'", "a", "i", " ", "l", "a", " ", "G", "r", "i", "p", "p", "e", "." >>, << "j", "e", " ", "l", "a" >>, << "m", "a", "l", " ", "d", "e", " ", "t", "e", "t", "e", "!" >>, << "t", "o", "u", "x", " ", " ", "f", "i", "e", "v", "r", "e" >>,
      << "A", "B", ".", " ", "d", "e" >>, << "-", "g", "r", "i", "p", "p", "e", "-", ",", " ", "t", "o", "u", "x", "?" >>, << >> }

Raises == [raises |-> TRUE, content |-> << >>]

LlmOutcomes ==
    { Raises }
    \cup { [raises |-> FALSE, content |-> c] :
             c \in { << "g", "r", "i", "p", "p", "e", " ", "i", "n", "f", "l", "u", "e", "n", "z", "a" >>, << "M", "o", "t", "s", "-", "c", "l", "e", "s", ":", " ", "g", "r", "i", "p", "p", "e" >>, << "j", "e", " ", "l", "a" >>, << >>,
                     << " ", "T", "o", "u", "x", ",", " ", "\"", "f", "i", "e", "v", "r", "e", "\"" >>, << "Q", "u", "e", "s", "t", "i", "o", "n", ":", " ", "x", "\n", "t", "e", "t", "e" >> } }

NotReformulated == << "<none>" >>

InitReform ==
    /\ user_query \in UserQueries
    /\ MISTRAL_API_KEY \in BOOLEAN
    /\ llm \in LlmOutcomes
    /\ reformulated = NotReformulated
    /\ InitSearchIdle
    /\ InitKeywordIdle
    /\ InitExcerptIdle
    /\ InitDateIdle

\* reformulated_query = call_mistral_reformulate(user_query)
Reformulate ==
    /\ reformulated = NotReformulated
    /\ reformulated' = call_mistral_reformulate(user_query, MISTRAL_API_KEY, llm)
    /\ UNCHANGED <<user_query, MISTRAL_API_KEY, llm>>
    /\ UNCHANGED <<searchVars, keywordVars, excerptVars, dateVars>>

NextReform == Reformulate

SpecReform == InitReform /\ [][NextReform]_vars

\* the external model is unavailable: no key, the call raises, or no usable line
LlmUnavailable ==
    \/ ~MISTRAL_API_KEY
    \/ llm.raises
    \/ UsableLines(llm.content) = << >>

\* r is the space-joined, strictly increasing (so sorted and duplicate-free)
\* list of exactly the strings of strs
SortedJoinOf(r, strs) ==
    LET ws == SplitOn(r, " ")
    IN  /\ Range(ws) = strs
        /\ \A i, j \in 1..Len(ws) : i < j => StrLess(ws[i], ws[j])

\* the words of the claim: every lowercased query word that is no stopword
\* and is longer than 2 characters
WholeWords(uq) ==
    { w \in Range(Split(Lower(uq))) : w \notin stopwords /\ Len(w) > 2 }

\* C8 as stated: when the model is unavailable the result is the sorted,
\* duplicate-free, space-joined set of the query's whole words (no stopword,
\* longer than 2 characters) with their synonyms, or the query itself when
\* that set is empty.
C8_FallbackOfWholeWords ==
    (reformulated # NotReformulated /\ LlmUnavailable) =>
        IF WithSynonyms(WholeWords(user_query)) = {}
        THEN reformulated = user_query
        ELSE SortedJoinOf(reformulated, WithSynonyms(WholeWords(user_query)))

\* the words of the amended claim: each lowercased query word with its
\* leading and trailing . , ! ? ; : - removed
StrippedWords(uq) ==
    { StripChars(w, {".", ",", "!", "?", ";", ":", "-"}) : w \in Range(Split(Lower(uq))) }

\* C8 as amended: the same, the words being taken after their leading and
\* trailing punctuation (. , ! ? ; : -) is removed, and the stopword and
\* length tests applying to the stripped word.
C8_FallbackOfStrippedWords ==
    (reformulated # NotReformulated /\ LlmUnavailable) =>
        LET kept == { w \in StrippedWords(user_query) : w \notin stopwords /\ Len(w) > 2 }
            expected == kept \cup UNION { Range(medical_synonyms[w]) :
                                            w \in kept \cap DOMAIN medical_synonyms }
        IN  IF expected = {} THEN reformulated = user_query
            ELSE SortedJoinOf(reformulated, expected)

\* the model raised and the punctuated query "J'ai la Grippe." was expanded
\* locally to grippe and its four synonyms
C8_Witness ==
    /\ MISTRAL_API_KEY
    /\ llm.raises
    /\ user_query = << "J", "'", "a", "i", " ", "l", "a", " ", "G", "r", "i", "p", "p", "e", "." >>
    /\ reformulated = << "f", "i", "e", "v", "r", "e", " ", "g", "r", "i", "p", "p", "e", " ", "i", "n", "f", "e", "c", "t", "i", "o", "n", " ", "i", "n", "f", "l", "u", "e", "n", "z", "a", " ", "v", "i", "r", "a", "l" >>

-----------------------------------------------------------------------------
(* Autocomplete (qdrant_search.py) over corpora of any size.               *)

Named(nom) == [nom |-> nom, indications |-> << >>]

\* the named points stored after the padding points
AutoCorpora ==
    { << Named(<< "P", "a", "r", "a", "c", "e", "t", "a", "m", "o", "l" >>), Named(<< "P", "a", "r", "a", "f", "f", "i", "n", "e" >>), Named(<< "I", "b", "u", "p", "r", "o", "f", "e", "n", "e" >>) >>,
      << Named(<< "P", "a", "r", "a", "f", "f", "i", "n", "e" >>), Named(<< "A", "n", "t", "i", "p", "a", "r", "a" >>), Named(<< "p", "a", "r", "a" >>), Named(<< "P", "a", "r", "a", "c", "e", "t", "a", "m", "o", "l" >>) >>,
      << Named(<< "I", "b", "u", "p", "r", "o", "f", "e", "n", "e" >>), Named(<< "P", "A", "R", "A" >>), Named(<< "P", "a", "r", "a" >>) >> }

AutoPads == {0, ScrollLimitAutocomplete - 2, ScrollLimitAutocomplete}

Prefixes == { << "p", "a", "r", "a" >>, << "P", "A", "R", "A" >>, << "f", "e", "n", "e" >>, << >> }

InitAuto ==
    /\ available \in BOOLEAN
    /\ fault = {}
    /\ corpusPad \in AutoPads
    /\ corpus \in AutoCorpora
    /\ index = << >>
    /\ query \in Prefixes
    /\ limit \in 1..MaxLimit
    /\ filters = NoneFilters
    /\ score_threshold = 0
    /\ op = "none"
    /\ out = << >>
    /\ embCache = << >>
    /\ encoded = << >>
    /\ InitKeywordIdle
    /\ InitExcerptIdle
    /\ InitDateIdle
    /\ InitReformIdle

Autocomplete ==
    /\ op = "none"
    /\ op' = "autocomplete"
    /\ out' = recherche_autocomplete(available, corpusPad, corpus, query, limit)
    /\ UNCHANGED <<available, fault, index, corpusPad, corpus, query, limit, filters, score_threshold>>
    /\ UNCHANGED <<embCache, encoded>>
    /\ UNCHANGED <<keywordVars, excerptVars, dateVars, reformVars>>

NextAuto == Autocomplete

SpecAuto == InitAuto /\ [][NextAuto]_vars

\* the tier of a name for a prefix: 0 equal, 1 starts with, 2 contains
TierOf(nom, prefix) ==
    IF Lower(nom) = Lower(prefix) THEN 0
    ELSE IF MatchAt(Lower(nom), Lower(prefix), 0) THEN 1
    ELSE 2

\* (tier, name) of a precedes or equals that of b
RankLeq(a, b, prefix) ==
    \/ TierOf(a, prefix) < TierOf(b, prefix)
    \/ TierOf(a, prefix) = TierOf(b, prefix) /\ (a = b \/ StrLess(a, b))

\* ids of the stored points whose name contains the prefix, whatever the case
MatchingIds ==
    { i \in 1..(corpusPad + Len(corpus)) :
        Contains(Lower(Points(corpusPad, corpus)[i].payload.nom), Lower(query)) }

\* C9: with the service up and a non-empty prefix, recherche_autocomplete
\* returns the first `limit` entries of the list of all corpus names that
\* contain the prefix, ordered by tier and then by name: as many as the limit
\* and the matches allow, each a distinct matching point, in rank order, and
\* no matching point left out ranks before a returned one.
C9_FirstOfAllMatches ==
    (op = "autocomplete" /\ available /\ query # << >>) =>
        /\ Len(out) = Min(limit, Cardinality(MatchingIds))
        /\ \A k \in 1..Len(out) : out[k].id \in MatchingIds
        /\ \A j, k \in 1..Len(out) :
              j < k => out[j].id # out[k].id /\ RankLeq(out[j].nom, out[k].nom, query)
        /\ \A i \in MatchingIds :
              (\A k \in 1..Len(out) : out[k].id # i) =>
                  \A k \in 1..Len(out) :
                      RankLeq(out[k].nom, Points(corpusPad, corpus)[i].payload.nom, query)

-----------------------------------------------------------------------------
(* The search operations when a collaborator raises.                       *)

\* rankings in which every named point has an ordinary similarity
FaultRankings == {r \in Rankings(SearchDocs) : \A i \in 1..Len(r) : r[i].raw = 500000}

InitFault ==
    /\ available \in BOOLEAN
    /\ fault \in SUBSET Faults
    /\ corpusPad = 0
    /\ corpus = SearchDocs
    /\ index \in FaultRankings
    /\ query \in Queries
    /\ limit \in 1..MaxLimit
    /\ filters = NoneFilters
    /\ score_threshold = 0
    /\ op = "none"
    /\ out = << >>
    /\ embCache = << >>
    /\ encoded = << >>
    /\ InitKeywordIdle
    /\ InitExcerptIdle
    /\ InitDateIdle
    /\ InitReformIdle

SpecFault == InitFault /\ [][Next]_vars

\* C11: when the embedding provider or the vector index raises during the
\* call, recherche_semantique and hybrid_search return the empty list; in
\* particular hybrid_search does so when only the embedding fails.
C11_FailureGivesEmptyList ==
    (op \in {"semantic", "hybrid"} /\ fault # {}) => out = << >>

-----------------------------------------------------------------------------
(* Match locations (app.py).                                               *)

\* one field against every search term: an encounter for each term that
\* occurs in it; TextOf(term) is the text shown for the match
FieldEncounters(field_lower, search_terms, location, priority, TextOf(_)) ==
    LET hits == SelectSeq(search_terms, LAMBDA t : Contains(field_lower, t))
    IN  [i \in 1..Len(hits) |->
            [location |-> location,
             text |-> TextOf(hits[i]),
             term |-> hits[i],
             count |-> Count(field_lower, hits[i]),
             priority |-> priority]]

\* content items with a non-empty text: an excerpt around each term found
ContentEncounters(holder, search_terms, location) ==
    IF "content" \in DOMAIN holder /\ holder.content # << >>
    THEN LET items == SelectSeq(holder.content,
                                LAMBDA it : "text" \in DOMAIN it /\ it.text # << >>)
         IN  Flatten([i \in 1..Len(items) |->
                         FieldEncounters(Lower(items[i].text), search_terms, location, 4,
                                         LAMBDA t : extract_excerpt(items[i].text, t))])
    ELSE << >>

\* dict.get('title', '')
TitleOrEmpty(holder) == IF "title" \in DOMAIN holder THEN holder.title ELSE << >>

TitleEncounters(m, search_terms) ==
    IF "title" \in DOMAIN m
    THEN FieldEncounters(Lower(m.title), search_terms, << "T", "i", "t", "r", "e" >>, 1, LAMBDA t : m.title)
    ELSE << >>

\* a present, non-empty entry of medicine_details
HasDetail(m, key) ==
    /\ key \in DOMAIN m.medicine_details
    /\ m.medicine_details[key] # << >>

DetailEncounters(m, search_terms) ==
    IF "medicine_details" \in DOMAIN m
    THEN LET details == m.medicine_details
         IN  (IF HasDetail(m, "substances_actives")
              THEN Flatten([i \in 1..Len(details.substances_actives) |->
                               FieldEncounters(Lower(details.substances_actives[i]),
                                               search_terms, << "S", "u", "b", "s", "t", "a", "n", "c", "e", " ", "a", "c", "t", "i", "v", "e" >>, 2,
                                               LAMBDA t : details.substances_actives[i])])
              ELSE << >>)
             \o (IF HasDetail(m, "laboratoire")
                 THEN FieldEncounters(Lower(details.laboratoire), search_terms,
                                      << "L", "a", "b", "o", "r", "a", "t", "o", "i", "r", "e" >>, 3, LAMBDA t : details.laboratoire)
                 ELSE << >>)
             \o (IF HasDetail(m, "forme")
                 THEN FieldEncounters(Lower(details.forme), search_terms,
                                      << "F", "o", "r", "m", "e", " ", "p", "h", "a", "r", "m", "a", "c", "e", "u", "t", "i", "q", "u", "e" >>, 3, LAMBDA t : details.forme)
                 ELSE << >>)
             \o (IF HasDetail(m, "dosages")
                 THEN Flatten([i \in 1..Len(details.dosages) |->
                                  FieldEncounters(Lower(details.dosages[i]), search_terms,
                                                  << "D", "o", "s", "a", "g", "e" >>, 3,
                                                  LAMBDA t : details.dosages[i])])
                 ELSE << >>)
    ELSE << >>

SubsectionEncounters(section_title, subsection, search_terms) ==
    LET subsection_title == TitleOrEmpty(subsection)
        location == section_title \o << " ", ">", " " >> \o subsection_title
    IN  FieldEncounters(Lower(subsection_title), search_terms, location, 3,
                        LAMBDA t : subsection_title)
        \o ContentEncounters(subsection, search_terms, location)

SectionEncounters(section, search_terms) ==
    LET section_title == TitleOrEmpty(section)
    IN  FieldEncounters(Lower(section_title), search_terms,
                        << "S", "e", "c", "t", "i", "o", "n", ":", " " >> \o section_title, 3, LAMBDA t : section_title)
        \o ContentEncounters(section, search_terms, section_title)
        \o (IF "subsections" \in DOMAIN section /\ section.subsections # << >>
            THEN Flatten([j \in 1..Len(section.subsections) |->
                             SubsectionEncounters(section_title, section.subsections[j],
                                                  search_terms)])
            ELSE << >>)

\* every add_match call of the walk, in order
Encounters(m, search_terms) ==
    TitleEncounters(m, search_terms)
    \o DetailEncounters(m, search_terms)
    \o (IF "sections" \in DOMAIN m
        THEN Flatten([i \in 1..Len(m.sections) |->
                         SectionEncounters(m.sections[i], search_terms)])
        ELSE << >>)

\* position of the key (location, term) in matches_dict, 0 when absent
MatchPos(matches_dict, location, trm) ==
    IF \E i \in 1..Len(matches_dict) :
          matches_dict[i].location = location /\ matches_dict[i].term = trm
    THEN CHOOSE i \in 1..Len(matches_dict) :
             matches_dict[i].location = location /\ matches_dict[i].term = trm
    ELSE 0

\* add_match(location, text, term, count, priority)
AddMatchReplacing(matches_dict, e) ==
    LET pos == MatchPos(matches_dict, e.location, e.term)
    IN  IF pos # 0
        THEN [matches_dict EXCEPT ![pos] = [e EXCEPT !.count = matches_dict[pos].count + e.count]]
        ELSE Append(matches_dict, e)

add_match(matches_dict, e) ==
    LET pos == MatchPos(matches_dict, e.location, e.term)
    IN  IF pos # 0
        THEN [matches_dict EXCEPT ![pos].count = matches_dict[pos].count + e.count]
        ELSE Append(matches_dict, e)

RECURSIVE AddAll(_, _)
AddAll(matches_dict, encounters) ==
    IF encounters = << >> THEN matches_dict
    ELSE AddAll(add_match(matches_dict, encounters[1]), Tail(encounters))

\* find_search_term_locations(medicine, search_query)
find_search_term_locations(m, sq) ==
    IF sq = << >> THEN << >>
    ELSE AddAll(<< >>, Encounters(m, Split(Lower(sq))))

\* documents of the match-location walk: fields met several times under one
\* (location, term) key, empty fields, and sections or subsections without
\* a title
LocateDetails ==
    [substances_actives |-> << << "P", "a", "r", "a", "c", "e", "t", "a", "m", "o", "l" >>, << "P", "a", "r", "a" >> >>,
     laboratoire |-> << "P", "a", "r", "a", " ", "L", "a", "b", "o" >>,
     forme |-> << >>,
     dosages |-> << << "5", "0", "0", " ", "m", "g" >>, << "5", "0", "0", " ", "m", "g", " ", "p", "a", "r", "a" >> >>]

RichSections ==
    << [title |-> << "E", "f", "f", "e", "t", "s" >>,
        content |-> << [text |-> << "P", "a", "r", "a", " ", "u", "n", "." >>], [text |-> << >>],
                       [text |-> << "C", "o", "d", "e", "i", "n", "e", " ", "p", "a", "r", "a", ".", " ", "F", "i", "n", "!" >>] >>,
        subsections |->
            << [title |-> << "P", "a", "r", "a" >>,
                content |-> << [text |-> << "R", "a", "r", "e", " ", "p", "a", "r", "a", " ", "p", "a", "r", "a", "." >>] >>] >>],
       [title |-> << "E", "f", "f", "e", "t", "s" >>,
        content |-> << [text |-> << "p", "a", "r", "a", " ", "e", "n", "c", "o", "r", "e" >>] >>] >>

MissingSectionTitle ==
    << [content |-> << [text |-> << "P", "a", "r", "a", " ", "c", "o", "d", "e", "i", "n", "e", "." >>] >>] >>

MissingSubsectionTitle ==
    << [title |-> << "E", "f", "f", "e", "t", "s" >>,
        subsections |-> << [content |-> << [text |-> << "P", "a", "r", "a", "." >>] >>] >>] >>

LocateDocuments ==
    Documents
    \cup { [title |-> << "P", "a", "r", "a" >>, medicine_details |-> LocateDetails, sections |-> RichSections],
           [medicine_details |-> LocateDetails],
           [title |-> << "P", "a", "r", "a", " ", "C", "o", "d", "e", "i", "n", "e" >>,
            medicine_details |-> [substances_actives |-> << << "P", "a", "r", "a" >>, << "C", "o", "d", "e", "i", "n", "e" >> >>]],
           [title |-> << "D", "o", "l", "i", "p", "r", "a", "n", "e" >>, sections |-> MissingSectionTitle],
           [sections |-> MissingSubsectionTitle] }

InitLocate ==
    /\ medicine \in LocateDocuments
    /\ search_query \in SearchQueries
    /\ kwScore = 0
    /\ kwCalls = 0
    /\ raised = "none"
    /\ locations = << >>
    /\ located = FALSE
    /\ InitSearchIdle
    /\ InitExcerptIdle
    /\ InitDateIdle
    /\ InitReformIdle

\* match_locations = find_search_term_locations(medicine, search_query)
Locate ==
    /\ ~located
    /\ located' = TRUE
    /\ locations' = find_search_term_locations(medicine, search_query)
    /\ UNCHANGED <<medicine, search_query, kwScore, kwCalls, raised>>
    /\ UNCHANGED <<searchVars, excerptVars, dateVars, reformVars>>

NextLocate ==
    \/ Score
    \/ Locate

SpecLocate == InitLocate /\ [][NextLocate]_vars

\* C12: on a document in which any subset of the optional fields is absent,
\* calculate_relevance_score and find_search_term_locations return normally:
\* no call raises.
C12_MissingFieldNeverRaises ==
    (kwCalls >= 1 \/ located) => raised = "none"

-----------------------------------------------------------------------------
(* Thresholds, order and fusion of the search operations.                  *)

\* C13: every result of recherche_semantique was reported by the index with a
\* normalized similarity of at least 0.15, carries it as original_score, and
\* has a re-ranked score of at least the caller's threshold.
C13_TwoStageThreshold ==
    op = "semantic" =>
        \A i \in 1..Len(out) :
            LET raw == index[RawOf(out[i].id)].raw
                normalized == IF raw < 0 THEN 0 ELSE IF raw > Scale THEN Scale ELSE raw
            IN  /\ out[i].original_score = normalized
                /\ 100 * normalized >= 15 * Scale
                /\ out[i].score >= score_threshold

\* with the default threshold, a hit below 0.15 and a hit whose re-ranked
\* score is below the threshold are left out while another one is returned
C13_Witness ==
    /\ op = "semantic"
    /\ score_threshold > 0
    /\ out # << >>
    /\ Len(out) < limit
    /\ \E i \in 1..Len(index) : 100 * index[i].raw < 15 * Scale
    /\ \E i \in 1..Len(index) :
          /\ 100 * index[i].raw >= 15 * Scale
          /\ \A k \in 1..Len(out) : out[k].id # corpusPad + index[i].doc

\* C14: recherche_semantique returns at most limit results, in non-increasing
\* order of re-ranked score, results of equal score in the order in which the
\* index returned them.
C14_BoundedStableOrder ==
    op = "semantic" =>
        /\ Len(out) <= limit
        /\ \A i, j \in 1..Len(out) :
              i < j =>
                 /\ out[i].score >= out[j].score
                 /\ out[i].score = out[j].score
                       => RawOf(out[i].id) < RawOf(out[j].id)

\* two results of equal re-ranked score are returned, and fewer results than
\* the limit
C14_Witness ==
    /\ op = "semantic"
    /\ Len(out) = 2
    /\ limit > 2
    /\ out[1].score = out[2].score

\* C16: the re-ranked score of a result is clamp01(0.45*v + 0.30*kd + 0.20*ed
\* + 0.05*p), v the normalized vector score, kd and ed the keyword and
\* exact-match boosters on base 1.0 minus 1.0, p = 0.08 exactly when v < 0.2.
C16_WeightedSum ==
    op = "semantic" =>
        \A i \in 1..Len(out) :
            LET q == Strip(query)
                v == out[i].original_score
                kd == _keyword_relevance_boost(q, out[i].nom, out[i].indications, Scale)
                          - Scale
                ed == _exact_match_boost(q, out[i].nom, Scale) - Scale
                p == IF 10 * v < 2 * Scale THEN (8 * Scale) \div 100 ELSE 0
                total == 45 * v + 30 * kd + 20 * ed + 5 * p
            IN  100 * out[i].score =
                    (IF total < 0 THEN 0
                     ELSE IF total > 100 * Scale THEN 100 * Scale ELSE total)

\* a result in the low-score band, carrying the penalty term, beside one
\* whose keyword delta is not zero
C16_Witness ==
    /\ op = "semantic"
    /\ \E i \in 1..Len(out) : 10 * out[i].original_score < 2 * Scale
    /\ \E i \in 1..Len(out) :
          _keyword_relevance_boost(Strip(query), out[i].nom, out[i].indications, Scale)
              # Scale

\* the entry of a list of results that has this id
EntryOf(results, id) == results[CHOOSE i \in 1..Len(results) : results[i].id = id]

IdsOf(results) == {results[i].id : i \in 1..Len(results)}

\* s is 0.6*n + 0.4*v, to the precision of the score unit
IsFusedScore(s, n, v) == 10 * s <= 6 * n + 4 * v /\ 6 * n + 4 * v < 10 * s + 20

\* C17: an id found only by the name scan keeps its name entry, an id found
\* only by the vector path keeps its re-ranked entry, an id found by both gets
\* 0.6*nameScore + 0.4*vectorScore and every other field of the vector
\* result; the output is sorted by score, best first, and holds the limit
\* best fused entries.
C17_FusionRule ==
    (op = "hybrid" /\ available /\ query # << >>) =>
        LET vector_results ==
                recherche_semantique(available, fault, corpusPad, corpus, index, query,
                                     limit * 2, 0)
            name_matches == NameMatches(corpusPad, corpus, query)
            V == IdsOf(vector_results)
            N == IdsOf(name_matches)
            Fused(e) ==
                IF e.id \in V /\ e.id \in N
                THEN /\ IsFusedScore(e.score, EntryOf(name_matches, e.id).score,
                                     EntryOf(vector_results, e.id).score)
                     /\ \A k \in DOMAIN EntryOf(vector_results, e.id) \ {"score"} :
                           k \in DOMAIN e /\ e[k] = EntryOf(vector_results, e.id)[k]
                ELSE IF e.id \in N THEN e = EntryOf(name_matches, e.id)
                ELSE e = EntryOf(vector_results, e.id)
            Best(id) ==
                IF id \in V /\ id \in N
                THEN (6 * EntryOf(name_matches, id).score
                          + 4 * EntryOf(vector_results, id).score) \div 10
                ELSE IF id \in N THEN EntryOf(name_matches, id).score
                ELSE EntryOf(vector_results, id).score
        IN  /\ Len(out) = Min(limit, Cardinality(V \cup N))
            /\ \A i \in 1..Len(out) : out[i].id \in V \cup N /\ Fused(out[i])
            /\ \A i, j \in 1..Len(out) :
                  i < j => out[i].score >= out[j].score /\ out[i].id # out[j].id
            /\ \A id \in (V \cup N) \ IdsOf(out) :
                  Best(id) <= out[Len(out)].score + 1

\* the three kinds are returned together: an id of the name scan only, an id
\* of the vector path only, and an id of both with its fused score
C17_Witness ==
    /\ op = "hybrid"
    /\ \E i, j, k \in 1..Len(out) :
          /\ "is_name_match" \in DOMAIN out[i] /\ "original_score" \notin DOMAIN out[i]
          /\ "is_name_match" \notin DOMAIN out[j]
          /\ "is_name_match" \in DOMAIN out[k] /\ "original_score" \in DOMAIN out[k]
          /\ out[k].score # out[k].original_score

-----------------------------------------------------------------------------
(* Properties of the keyword scorer and of the match-location walk.        *)

\* C15: calculate_relevance_score and find_search_term_locations leave the
\* document unchanged: no step changes its keys or its values.
C15_DocumentUnchanged == [][medicine' = medicine]_vars

\* the entry of a dict, empty when the key is absent
EntryOrEmpty(holder, key) == IF key \in DOMAIN holder THEN holder[key] ELSE << >>

\* occurrences of the terms in one text, each counted weight times
Occurrences(txt, terms, weight) ==
    SumSeq([i \in 1..Len(terms) |-> weight * Count(Lower(txt), terms[i])])

\* occurrences in the body texts of a section or subsection
BodyOccurrences(holder, terms, weight) ==
    LET items == EntryOrEmpty(holder, "content")
    IN  SumSeq([i \in 1..Len(items) |->
                   Occurrences(EntryOrEmpty(items[i], "text"), terms, weight)])

\* the weight table of the scorer; every weight is 1 when weighted is FALSE
WeightOf(field, important, weighted) ==
    IF ~weighted THEN 1
    ELSE CASE field = "title" -> 10
           [] field = "substance" -> 8
           [] field = "forme" -> 5
           [] field = "dosage" -> 5
           [] field = "section title" -> IF important THEN 5 ELSE 2
           [] field = "section body" -> IF important THEN 4 ELSE 1
           [] field = "subsection title" -> 2
           [] field = "subsection body" -> 1

\* sum over all fields and terms of weight(field) * occurrence count
TableSum(m, terms, weighted) ==
    LET details == EntryOrEmpty(m, "medicine_details")
        substances == EntryOrEmpty(details, "substances_actives")
        dosages == EntryOrEmpty(details, "dosages")
        sections == EntryOrEmpty(m, "sections")
        W(field, important) == WeightOf(field, important, weighted)
        OfSubsection(sub) ==
            Occurrences(sub.title, terms, W("subsection title", FALSE))
            + BodyOccurrences(sub, terms, W("subsection body", FALSE))
        OfSection(sec) ==
            LET important == sec.title \in important_sections
                subs == EntryOrEmpty(sec, "subsections")
            IN  Occurrences(sec.title, terms, W("section title", important))
                + BodyOccurrences(sec, terms, W("section body", important))
                + SumSeq([j \in 1..Len(subs) |-> OfSubsection(subs[j])])
    IN  Occurrences(EntryOrEmpty(m, "title"), terms, W("title", FALSE))
        + SumSeq([i \in 1..Len(substances) |->
                     Occurrences(substances[i], terms, W("substance", FALSE))])
        + Occurrences(EntryOrEmpty(details, "forme"), terms, W("forme", FALSE))
        + SumSeq([i \in 1..Len(dosages) |->
                     Occurrences(dosages[i], terms, W("dosage", FALSE))])
        + SumSeq([i \in 1..Len(sections) |-> OfSection(sections[i])])

\* the exact-match bonuses the scorer added: 15 for each term equal to the
\* lowercased title, 10 for each term and substance that are equal
BonusesAdded(m, terms) ==
    LET substances == EntryOrEmpty(EntryOrEmpty(m, "medicine_details"), "substances_actives")
        Equal(txt) == Cardinality({i \in 1..Len(terms) : terms[i] = Lower(txt)})
    IN  (IF "title" \in DOMAIN m THEN 15 * Equal(m.title) ELSE 0)
        + SumSeq([i \in 1..Len(substances) |-> 10 * Equal(substances[i])])

\* C18: apart from the exact-match bonuses, the score is the sum over fields
\* and terms of weight(field) * occurrence count plus the unweighted number
\* of occurrences, and match_count is that number.
C18_WeightTable ==
    (kwCalls >= 1 /\ raised = "none") =>
        LET terms == Split(Lower(search_query))
        IN  /\ kwScore - BonusesAdded(medicine, terms)
                  = TableSum(medicine, terms, TRUE) + TableSum(medicine, terms, FALSE)
            /\ medicine.match_count = TableSum(medicine, terms, FALSE)

\* a document scored on a term found in the body of an important section,
\* in a substance, in a dosage and in a subsection
C18_Witness ==
    /\ kwCalls >= 1
    /\ raised = "none"
    /\ "sections" \in DOMAIN medicine
    /\ "medicine_details" \in DOMAIN medicine
    /\ medicine.sections[1].title \in important_sections
    /\ LET terms == Split(Lower(search_query))
       IN  /\ BodyOccurrences(medicine.sections[1], terms, 1) > 0
           /\ \E i \in 1..Len(EntryOrEmpty(medicine.medicine_details, "dosages")) :
                 Occurrences(medicine.medicine_details.dosages[i], terms, 1) > 0
           /\ kwScore > 3 * medicine.match_count

\* C19: the scorer adds the title bonus of 15 once exactly when the lowercased
\* query equals the lowercased title, the substance bonus of 10 once for each
\* active substance equal to the lowercased query, and no other bonus.
C19_BonusOncePerExactMatch ==
    (kwCalls >= 1 /\ raised = "none") =>
        LET terms == Split(Lower(search_query))
            substances ==
                EntryOrEmpty(EntryOrEmpty(medicine, "medicine_details"), "substances_actives")
        IN  kwScore - TableSum(medicine, terms, TRUE) - TableSum(medicine, terms, FALSE)
                = (IF "title" \in DOMAIN medicine
                      /\ Lower(medicine.title) = Lower(search_query)
                   THEN 15 ELSE 0)
                  + 10 * Cardinality({i \in 1..Len(substances) :
                                         Lower(substances[i]) = Lower(search_query)})

\* the add_match calls of the walk that carry this (location, term) key
SameKey(encounters, e) ==
    SelectSeq(encounters, LAMBDA x : x.location = e.location /\ x.term = e.term)

\* C20: the list of find_search_term_locations holds at most one entry per
\* (location, term) pair, each with count >= 1; an entry's count is the sum of
\* the occurrence counts met under its key during the walk, and its text and
\* priority are those of the first time the key was met.
C20_OneEntryPerLocationTerm ==
    located =>
        LET encounters ==
                IF search_query = << >> THEN << >>
                ELSE Encounters(medicine, Split(Lower(search_query)))
        IN  /\ \A i, j \in 1..Len(locations) :
                  i # j => \/ locations[i].location # locations[j].location
                           \/ locations[i].term # locations[j].term
            /\ \A i \in 1..Len(locations) :
                  LET met == SameKey(encounters, locations[i])
                  IN  /\ locations[i].count >= 1
                      /\ met # << >>
                      /\ locations[i].count = SumSeq([k \in 1..Len(met) |-> met[k].count])
                      /\ locations[i].text = met[1].text
                      /\ locations[i].priority = met[1].priority
            /\ \A k \in 1..Len(encounters) :
                  \E i \in 1..Len(locations) :
                      /\ locations[i].location = encounters[k].location
                      /\ locations[i].term = encounters[k].term

\* a key met first on a subsection title (priority 3) and again in the
\* subsection's body with another text and priority 4: one entry, the first
\* text and priority, the counts added
C20_Witness ==
    /\ located
    /\ search_query # << >>
    /\ \E i \in 1..Len(locations) :
          LET met == SameKey(Encounters(medicine, Split(Lower(search_query))),
                             locations[i])
          IN  /\ Len(met) >= 2
              /\ met[1].priority = 3
              /\ met[2].priority = 4
              /\ met[2].text # met[1].text
              /\ locations[i].count > met[1].count

\* C21: once both have run on a document and query, the occurrence counts of
\* the entries returned by find_search_term_locations add up to the
\* match_count that calculate_relevance_score stored.
C21_LocationCountsMatchScorer ==
    (located /\ kwCalls >= 1 /\ raised = "none") =>
        SumSeq([i \in 1..Len(locations) |-> locations[i].count]) = medicine.match_count

-----------------------------------------------------------------------------
(* recherche_par_champ and the embedding cache (qdrant_search.py).         *)

\* the field names the callers pass, as text
FieldNameText ==
    [indications |-> << "i", "n", "d", "i", "c", "a", "t", "i", "o", "n", "s" >>, composition |-> << "c", "o", "m", "p", "o", "s", "i", "t", "i", "o", "n" >>]

FieldNames == DOMAIN FieldNameText

\* enriched_query of recherche_par_champ: the query is not stripped
EnrichedField(field_name, q) == FieldNameText[field_name] \o << ":", " " >> \o q

\* recherche_par_champ(field_name, query, limit): the nearest points as they
\* come, neither filtered nor re-ranked
recherche_par_champ(avail, faults, pad, named, idx, field_name, q, lim) ==
    IF ~avail \/ q = << >> THEN << >>
    ELSE IF faults # {} THEN << >>
    ELSE IF \E i \in 1..Min(lim, Len(idx)) :
                PayloadGet(PayloadOrEmpty(Search(pad, named, idx, lim)[i].payload),
                           field_name) = None
         THEN << >>
    ELSE LET results == Search(pad, named, idx, lim)
             formatted(result) ==
                 [k \in {"id", "score", "nom", field_name, "qdrant_id"} |->
                     CASE k = "id" -> result.id
                       [] k = "score" -> _normalize_score(result.score)
                       [] k = field_name ->
                              Take(PayloadGet(PayloadOrEmpty(result.payload), field_name), 400)
                       [] k = "nom" -> PayloadGet(PayloadOrEmpty(result.payload), "nom")
                       [] k = "qdrant_id" -> result.id]
         IN  [i \in 1..Len(results) |-> formatted(results[i])]

\* the embedding step of recherche_par_champ
FieldEmbeddingStep(avail, cache, faults, field_name, q) ==
    IF ~avail \/ q = << >>
    THEN [cache |-> cache, encoded |-> << >>, raises |-> FALSE]
    ELSE _get_embedding_cached(cache, faults, EnrichedField(field_name, q))

ParChamp(field_name) ==
    LET step == FieldEmbeddingStep(available, embCache, fault, field_name, query)
    IN  /\ score_threshold' = 0
        /\ op' = "field"
        /\ out' = recherche_par_champ(available, RaisedDuring(step, fault), corpusPad,
                                      corpus, index, field_name, query, limit)
        /\ embCache' = step.cache
        /\ encoded' = step.encoded
        /\ UNCHANGED <<available, fault, index, corpusPad, corpus, query, limit, filters>>
        /\ UNCHANGED <<keywordVars, excerptVars, dateVars, reformVars>>

\* the embedding model or the index starts or stops failing between two calls
Outage(f) ==
    /\ fault' = f
    /\ UNCHANGED <<available, index, corpusPad, corpus, query, limit, filters, score_threshold, op,
                   out, embCache, encoded>>
    /\ UNCHANGED <<keywordVars, excerptVars, dateVars, reformVars>>

\* an input cached by an earlier, unrelated query
EarlierInput(i) == << "#", ToString(i) >>

\* the cache after n earlier queries
EarlierCache(n) == [i \in 1..n |-> EarlierInput(i)]

CacheQueries == { << "d", "o", "l", "i", "p", "r", "a", "n", "e" >>, << "d", "o", "l", "i", "p", "r", "a", "n", "e", " " >> }

CacheRankings == {r \in FaultRankings : \A i \in 1..Len(r) : r[i].doc = i}

InitCache ==
    /\ available = TRUE
    /\ fault \in SUBSET Faults
    /\ corpusPad = 0
    /\ corpus = SearchDocs
    /\ index \in CacheRankings
    /\ query \in CacheQueries
    /\ limit \in 1..MaxLimit
    /\ filters = NoneFilters
    /\ score_threshold = 0
    /\ op = "none"
    /\ out = << >>
    /\ embCache \in {EarlierCache(0), EarlierCache(EmbeddingCacheSize - 1),
                     EarlierCache(EmbeddingCacheSize)}
    /\ encoded = << >>
    /\ InitKeywordIdle
    /\ InitExcerptIdle
    /\ InitDateIdle
    /\ InitReformIdle

NextCache ==
    \/ \E threshold \in Thresholds : Semantic(threshold)
    \/ Hybrid
    \/ \E field_name \in FieldNames : ParChamp(field_name)
    \/ \E f \in SUBSET Faults : Outage(f)

SpecCache == InitCache /\ [][NextCache]_vars

NoDuplicate(cache) == Cardinality({cache[i] : i \in 1..Len(cache)}) = Len(cache)

\* C22: over any sequence of recherche_semantique, hybrid_search and
\* recherche_par_champ calls (the steps that leave fault alone), the embedding
\* model is never handed an input that is in the cache at that moment, a call
\* of the model that fails adds no entry, and the cache never holds more than
\* 1000 inputs, each of them once.
C22_EmbeddingCache ==
    [][fault' = fault =>
          /\ \A i \in 1..Len(encoded') : ~InCache(embCache, encoded'[i])
          /\ ("embedding" \in fault /\ encoded' # << >>) => embCache' = embCache
          /\ Len(embCache') <= EmbeddingCacheSize
          /\ NoDuplicate(embCache')]_vars

\* C22 witness: a full cache took a new input, and a later call on the same
\* input was answered without the model
C22_Witness ==
    /\ Len(embCache) = EmbeddingCacheSize
    /\ InCache(embCache, EnrichedQuery(query))
    /\ ~InCache(embCache, EarlierInput(1))
    /\ op = "semantic"
    /\ encoded = << >>

-----------------------------------------------------------------------------
(* hybrid_search on a collection larger than its scroll.                   *)

LargePads == {0, ScrollLimitHybrid - 2, ScrollLimitHybrid}

LargeRankings ==
    {r \in Rankings(SearchDocs) :
        \A i \in 1..Len(r) : r[i].doc = i /\ r[i].raw \in {100000, 500000}}

InitLarge ==
    /\ available \in BOOLEAN
    /\ fault = {}
    /\ corpusPad \in LargePads
    /\ corpus = SearchDocs
    /\ index \in LargeRankings
    /\ query \in Queries
    /\ limit \in 1..MaxLimit
    /\ filters = NoneFilters
    /\ score_threshold = 0
    /\ op = "none"
    /\ out = << >>
    /\ embCache = << >>
    /\ encoded = << >>
    /\ InitKeywordIdle
    /\ InitExcerptIdle
    /\ InitDateIdle
    /\ InitReformIdle

SpecLarge == InitLarge /\ [][Next]_vars

\* C23: whatever the size of the collection, every stored point whose name
\* matches the query (name score at least 0.5) is returned by hybrid_search as
\* a name match, unless limit results that score at least 0.6 times its name
\* score took its place.
C23_ExhaustiveNameScan ==
    (op = "hybrid" /\ available /\ query # << >>) =>
        LET points == Points(corpusPad, corpus)
            query_lower == Strip(Lower(query))
        IN  \A i \in 1..Len(points) :
                LET s == NameScore(query_lower, Lower(points[i].payload.nom))
                IN  2 * s >= Scale =>
                        \/ \E k \in 1..Len(out) :
                               /\ out[k].id = points[i].id
                               /\ "is_name_match" \in DOMAIN out[k]
                        \/ /\ Len(out) = limit
                           /\ \A k \in 1..Len(out) : out[k].score >= Times(s, 6, 10)

-----------------------------------------------------------------------------
(* Concurrent callers of the two lru_cache-wrapped functions:              *)
(* _get_embedding_cached (qdrant_search.py) and                            *)
(* convert_french_date_cached (app.py).  A call looks the key up under the *)
(* cache's lock, runs the wrapped body with the lock released, and stores  *)
(* the result under the lock unless the key arrived meanwhile.             *)

Threads == {"t1", "t2"}

\* embedding_model.encode(text).tolist(): the vector of a text
Embedding(txt) == [vector_of |-> txt]

\* the wrapped body of a caller's function, applied to its key
BodyOf(c) ==
    IF c.cache = "date" THEN convert_french_date_body(c.key) ELSE Embedding(c.key)

\* lookup under the lock: whether the caller's key is cached
Cached(c, memo, cache) ==
    IF c.cache = "date" THEN MemoPos(memo, c.key) # 0 ELSE InCache(cache, c.key)

MemoStoreUnchecked(memo, d, v) ==
    LET grown == Append(memo, [key |-> d, value |-> v])
    IN  IF Len(grown) > DateCacheSize THEN Tail(grown) ELSE grown

\* store under the lock: `if key in cache: pass`, else the new entry is the
\* most recently used one and the oldest entry leaves a full cache
MemoStore(memo, d, v) ==
    IF MemoPos(memo, d) # 0 THEN memo
    ELSE LET grown == Append(memo, [key |-> d, value |-> v])
         IN  IF Len(grown) > DateCacheSize THEN Tail(grown) ELSE grown

EmbeddingStore(cache, key) ==
    IF InCache(cache, key) THEN cache ELSE EmbeddingCacheInsert(cache, key)

ThreadDates ==
    { [type |-> "str", value |-> << "0", "5", "/", "0", "3", "/", "2", "0", "2", "4" >>], [type |-> "str", value |-> << "3", "1", "/", "1", "2", "/", "1", "9", "9", "9" >>] }

ThreadTexts == { EnrichedQuery(<< "d", "o", "l", "i", "p", "r", "a", "n", "e" >>), EnrichedField("indications", << "d", "o", "l", "i", "p", "r", "a", "n", "e" >>) }

\* a thread entering one of the two functions
Entering ==
    [cache : {"date"}, key : ThreadDates, pc : {"lookup"}, result : {<< >>}, ran : {FALSE}]
    \cup [cache : {"embedding"}, key : ThreadTexts, pc : {"lookup"}, result : {<< >>},
          ran : {FALSE}]

InitThreads ==
    /\ callers \in [Threads -> Entering]
    /\ date_str = UnsetDate
    /\ dateKey = 0
    /\ dateMemo \in {<< >>} \cup {MemoAfter(<< >>, d) : d \in ThreadDates}
    /\ available = TRUE
    /\ fault = {}
    /\ index = << >>
    /\ corpusPad = 0
    /\ corpus = << >>
    /\ query = << >>
    /\ limit = 1
    /\ filters = NoneFilters
    /\ score_threshold = 0
    /\ op = "none"
    /\ out = << >>
    /\ embCache \in {EarlierCache(0), EarlierCache(EmbeddingCacheSize)}
    /\ encoded = << >>
    /\ InitKeywordIdle
    /\ InitExcerptIdle
    /\ InitReformIdle

\* with lock: link = cache_get(key); a hit moves the entry to the most
\* recently used end and returns its result
Lookup(t) ==
    LET c == callers[t]
    IN  /\ c.pc = "lookup"
        /\ IF Cached(c, dateMemo, embCache)
           THEN /\ callers' = [callers EXCEPT ![t].pc = "done",
                                              ![t].result =
                                                  IF c.cache = "date"
                                                  THEN << convert_french_date_cached(dateMemo, c.key) >>
                                                  ELSE << Embedding(c.key) >>]
                /\ dateMemo' = IF c.cache = "date" THEN MemoAfter(dateMemo, c.key)
                               ELSE dateMemo
                /\ embCache' = IF c.cache = "embedding"
                               THEN EmbeddingCacheInsert(embCache, c.key)
                               ELSE embCache
           ELSE /\ callers' = [callers EXCEPT ![t].pc = "compute"]
                /\ UNCHANGED <<dateMemo, embCache>>
        /\ UNCHANGED <<date_str, dateKey>>
        /\ UNCHANGED <<available, fault, index, corpusPad, corpus, query, limit, filters,
                       score_threshold, op, out, encoded>>
        /\ UNCHANGED <<keywordVars, excerptVars, reformVars>>

\* result = user_function(*args, **kwds), the lock released
Compute(t) ==
    LET c == callers[t]
    IN  /\ c.pc = "compute"
        /\ callers' = [callers EXCEPT ![t].pc = "store",
                                      ![t].result = << BodyOf(c) >>,
                                      ![t].ran = TRUE]
        /\ encoded' = IF c.cache = "embedding" THEN << c.key >> ELSE encoded
        /\ UNCHANGED <<date_str, dateKey, dateMemo>>
        /\ UNCHANGED <<available, fault, index, corpusPad, corpus, query, limit, filters,
                       score_threshold, op, out, embCache>>
        /\ UNCHANGED <<keywordVars, excerptVars, reformVars>>

\* with lock: the computed result is stored unless the key is cached by now
Store(t) ==
    LET c == callers[t]
    IN  /\ c.pc = "store"
        /\ callers' = [callers EXCEPT ![t].pc = "done"]
        /\ dateMemo' = IF c.cache = "date" THEN MemoStore(dateMemo, c.key, c.result[1])
                       ELSE dateMemo
        /\ embCache' = IF c.cache = "embedding" THEN EmbeddingStore(embCache, c.key)
                       ELSE embCache
        /\ UNCHANGED <<date_str, dateKey>>
        /\ UNCHANGED <<available, fault, index, corpusPad, corpus, query, limit, filters,
                       score_threshold, op, out, encoded>>
        /\ UNCHANGED <<keywordVars, excerptVars, reformVars>>

NextThreads == \E t \in Threads : Lookup(t) \/ Compute(t) \/ Store(t)

SpecThreads == InitThreads /\ [][NextThreads]_vars

\* number of entries a caller's cache holds for the caller's key
EntriesFor(c) ==
    IF c.cache = "date"
    THEN Cardinality({i \in 1..Len(dateMemo) : dateMemo[i].key = c.key})
    ELSE Cardinality({i \in 1..Len(embCache) : embCache[i] = c.key})

SameCall(a, b) == a.cache = b.cache /\ a.key = b.key

\* C24: concurrent callers of the embedding cache or of the date memo, with
\* the same key or not: every caller that has returned got the value of the
\* wrapped function for its key, and once all have returned each key has
\* exactly one entry, holding that value.
C24_ConcurrentCallers ==
    /\ \A t \in DOMAIN callers :
           callers[t].pc = "done" => callers[t].result = << BodyOf(callers[t]) >>
    /\ \A i \in 1..Len(dateMemo) :
           dateMemo[i].value = convert_french_date_body(dateMemo[i].key)
    /\ (\A t \in DOMAIN callers : callers[t].pc = "done") =>
           \A t \in DOMAIN callers : EntriesFor(callers[t]) = 1

\* C24 witness: two callers of the date memo with the same key both ran the
\* body, and both have returned
C24_Witness ==
    /\ DOMAIN callers = Threads
    /\ \A t \in Threads : callers[t].pc = "done" /\ callers[t].ran
    /\ \A t, u \in Threads : SameCall(callers[t], callers[u])
    /\ \A t \in Threads : callers[t].cache = "date"

-----------------------------------------------------------------------------
(* Search over a collection holding one incomplete record.                 *)

Defects == {"no_payload", "no_nom", "null_nom", "no_indications", "null_indications"}

\* a payload with one defect
Defective(payload, defect) ==
    CASE defect = "no_payload" -> NonePayload
      [] defect = "no_nom" -> [indications |-> payload.indications]
      [] defect = "null_nom" -> [payload EXCEPT !.nom = None]
      [] defect = "no_indications" -> [nom |-> payload.nom]
      [] defect = "null_indications" -> [payload EXCEPT !.indications = None]

DefectiveCorpora ==
    { [i \in 1..Len(SearchDocs) |->
          IF i = k THEN Defective(SearchDocs[i], defect) ELSE SearchDocs[i]] :
      k \in 1..Len(SearchDocs), defect \in Defects }

InitDefect ==
    /\ available \in BOOLEAN
    /\ fault = {}
    /\ corpusPad = 0
    /\ corpus \in DefectiveCorpora
    /\ index \in LargeRankings
    /\ query \in Queries
    /\ limit \in 1..MaxLimit
    /\ filters = NoneFilters
    /\ score_threshold = 0
    /\ op = "none"
    /\ out = << >>
    /\ embCache = << >>
    /\ encoded = << >>
    /\ InitKeywordIdle
    /\ InitExcerptIdle
    /\ InitDateIdle
    /\ InitReformIdle

SpecDefect == InitDefect /\ [][Next]_vars

\* the payload with its null entries, or its absence, read as absent fields
WithoutNulls(payload) ==
    IF "NoneType" \in DOMAIN payload THEN << >>
    ELSE [k \in {f \in DOMAIN payload : payload[f] # None} |-> payload[k]]

\* C25: recherche_semantique and hybrid_search on a collection with one record
\* whose payload is absent, or whose name or other text field is absent or
\* null, return what they return when that record's missing fields are plain
\* absent fields (read as empty): the record is still returned and no other
\* record is omitted.
C25_IncompleteRecordTolerated ==
    LET repaired == [i \in 1..Len(corpus) |-> WithoutNulls(corpus[i])]
    IN  /\ op = "semantic" =>
              out = recherche_semantique(available, fault, corpusPad, repaired, index,
                                         query, limit, score_threshold)
        /\ op = "hybrid" =>
              out = hybrid_search(available, fault, corpusPad, repaired, index, query,
                                  limit)

-----------------------------------------------------------------------------
(* Bounds of the re-ranked score.                                          *)

\* vector scores around the penalty band and the default threshold
BoundaryScores == {0, 190000, 200000, 540000, 550000, 555555, 555556, 560000, Scale}

ScoreWithinBound(score, v) ==
    /\ score <= Times(v, 45, 100) + Times(Scale, 4, 1000)
    /\ score <= Times(Scale, 45, 100)
    /\ score >= Times(Scale, 25, 100) => v >= Times(Scale, 55, 100)

-----------------------------------------------------------------------------
(* Rank of the exact name match in hybrid_search.                          *)

\* C27: in the list returned by hybrid_search no document whose name equals
\* the query, case-insensitively, comes after a document whose name does not.
C27_ExactNameFirst ==
    op = "hybrid" =>
        \A i, j \in 1..Len(out) :
            (i < j /\ NameEqualsQuery(out[j].nom, query)) =>
                NameEqualsQuery(out[i].nom, query)

-----------------------------------------------------------------------------
(* The excerpt and the term it is built around.                            *)

\* C28: whenever the term occurs in the text, case-insensitively, the excerpt
\* of extract_excerpt contains the whole term, case-insensitively; terms that
\* hold '.', '!' or '?' included.
C28_ExcerptContainsTerm ==
    (excerpt # NotExtracted /\ FirstOccurrence # -1) =>
        Contains(Lower(excerpt), Lower(term))

-----------------------------------------------------------------------------
(* search_with_filters (qdrant_search.py).                                 *)

\* score_threshold: float = 0.25, the default of recherche_semantique
DefaultThreshold == Times(Scale, 25, 100)

\* r.get("composition", ""): the result's composition, the first 250
\* characters of the payload's
CompositionOf(r, pad, named) ==
    Take(PayloadGet(PayloadOrEmpty(named[r.id - pad]), "composition"), 250)

\* `if filters:` is false for None and for the empty dict
Truthy(dict) == "NoneType" \notin DOMAIN dict /\ DOMAIN dict # {}

\* the branch taken when filters is truthy: a result has no
\* pourcentage_completude, read as 0; filtered[:limit]
Filtered(results, flt, pad, named, lim) ==
    LET by_completude ==
            IF "completude_min" \in DOMAIN flt
            THEN SelectSeq(results, LAMBDA r : 0 >= flt.completude_min)
            ELSE results
        by_composition ==
            IF "requires_composition" \in DOMAIN flt /\ flt.requires_composition
            THEN SelectSeq(by_completude,
                           LAMBDA r : Strip(CompositionOf(r, pad, named)) # << >>)
            ELSE by_completude
    IN  Take(by_composition, lim)

\* search_with_filters(query, filters, limit)
search_with_filters(avail, faults, pad, named, idx, q, flt, lim) ==
    IF ~avail \/ q = << >> THEN << >>
    ELSE LET results ==
                 recherche_semantique(avail, faults, pad, named, idx, q, lim * 2,
                                      DefaultThreshold)
         IN  IF Truthy(flt) THEN Filtered(results, flt, pad, named, lim)
             ELSE results

WithFilters(flt) ==
    LET step == EmbeddingStep(available, embCache, fault, query)
    IN  /\ filters' = flt
        /\ score_threshold' = DefaultThreshold
        /\ op' = "filters"
        /\ out' = search_with_filters(available, RaisedDuring(step, fault), corpusPad,
                                      corpus, index, query, flt, limit)
        /\ embCache' = step.cache
        /\ encoded' = step.encoded
        /\ UNCHANGED <<available, fault, index, corpusPad, corpus, query, limit>>
        /\ UNCHANGED <<keywordVars, excerptVars, dateVars, reformVars>>

\* the documents of the corpus, two of them with a composition, one blank
FilterDocs ==
    << [nom |-> SearchDocs[1].nom, indications |-> SearchDocs[1].indications,
        composition |-> << "p", "a", "r", "a", "c", "e", "t", "a", "m", "o", "l" >>],
       [nom |-> SearchDocs[2].nom, indications |-> SearchDocs[2].indications,
        composition |-> << " ", " " >>],
       SearchDocs[3] >>

FilterValues ==
    { NoneFilters, << >>,
      [completude_min |-> 0], [completude_min |-> 50],
      [requires_composition |-> TRUE], [requires_composition |-> FALSE],
      [completude_min |-> 0, requires_composition |-> TRUE] }

FilterRankings ==
    {r \in Rankings(SearchDocs) : \A i \in 1..Len(r) : r[i].raw \in {500000, 1300000}}

InitFilter ==
    /\ available \in BOOLEAN
    /\ fault = {}
    /\ corpusPad = 0
    /\ corpus = FilterDocs
    /\ index \in FilterRankings
    /\ query \in Queries
    /\ limit \in 1..MaxLimit
    /\ filters = NoneFilters
    /\ score_threshold = 0
    /\ op = "none"
    /\ out = << >>
    /\ embCache = << >>
    /\ encoded = << >>
    /\ InitKeywordIdle
    /\ InitExcerptIdle
    /\ InitDateIdle
    /\ InitReformIdle

NextFilter == \E flt \in FilterValues : WithFilters(flt)

SpecFilter == InitFilter /\ [][NextFilter]_vars

\* C29: search_with_filters returns at most limit results, whatever the
\* filters, None and the empty dict included.
C29_AtMostLimit == op = "filters" => Len(out) <= limit

-----------------------------------------------------------------------------
(* The four search operations on a blank query.                            *)

BlankQueries == { << >>, << " " >>, << " ", " " >> }

InitBlank ==
    /\ available \in BOOLEAN
    /\ fault = {}
    /\ corpusPad = 0
    /\ corpus = SearchDocs
    /\ index \in LargeRankings
    /\ query \in BlankQueries
    /\ limit \in 1..MaxLimit
    /\ filters = NoneFilters
    /\ score_threshold = 0
    /\ op = "none"
    /\ out = << >>
    /\ embCache = << >>
    /\ encoded = << >>
    /\ InitKeywordIdle
    /\ InitExcerptIdle
    /\ InitDateIdle
    /\ InitReformIdle

NextBlank ==
    \/ \E threshold \in Thresholds : Semantic(threshold)
    \/ Hybrid
    \/ \E field_name \in FieldNames : ParChamp(field_name)
    \/ Autocomplete

SpecBlank == InitBlank /\ [][NextBlank]_vars

\* C30: on a query made only of whitespace, recherche_semantique,
\* hybrid_search, recherche_par_champ and recherche_autocomplete return the
\* empty list, as on the empty query, and the call hands nothing to the
\* embedding model.
C30_BlankQueryLikeEmpty ==
    (op # "none" /\ Strip(query) = << >>) => (out = << >> /\ encoded = << >>)

=============================================================================
